---- MODULE Spec2Model ----
(***************************************************************************)
(* A model of the shell's command pipeline: the scanner (src/scanner.rs),  *)
(* the recursive-descent parser (src/parser.rs) and the evaluator with its *)
(* child processes and pipes (src/main.rs).                                *)
(*                                                                         *)
(* Characters are one-character strings, a text is a sequence of them.     *)
(* Scanner and parser are pure functions of the text and are written as    *)
(* operators; the evaluator is a state machine over the shell's files,     *)
(* console, working directory, pipes and children.                         *)
(***************************************************************************)
EXTENDS Integers, Sequences, FiniteSets, TLC

(***************************************************************************)
(* Bounds of the model.                                                    *)
(***************************************************************************)
\* longest text of the character-level input set
MaxTextLen == 4
\* most space-separated items in a text of the word-level input set
MaxWords == 3
\* most lines the shell reads in one run
MaxLines == 2
\* bytes a pipe holds before a write to it blocks
PipeCap == 1
\* most calls of next_token after the one that returned the end-of-input token
MaxLateCalls == 2
\* most lines in the history the history built-in is run on
MaxHistory == 3

(***************************************************************************)
(* Characters.                                                             *)
(***************************************************************************)
\* Option<char>::None; every character is a one-character string
None == "None"

BS == "\\"
SQ == "'"
DQ == "\""

Digits == <<"0", "1", "2", "3", "4", "5", "6", "7", "8", "9">>

is_digit(c) == \E d \in 1..10 : Digits[d] = c

DigitValue(c) == (CHOOSE d \in 1..10 : Digits[d] = c) - 1

\* mutant: only the blank and the tab are whitespace
is_whitespace_blank_or_tab(c) == c = " " \/ c = "\t"

is_whitespace(c) == c = " " \/ c = "\t" \/ c = "\r" \/ c = "\n"

(***************************************************************************)
(* u32 values keep their width: a value is two 16-bit limbs, so that the   *)
(* range check of parse_u32 is computed and not assumed.                   *)
(***************************************************************************)
Limb == 65536

U32(n) == [hi |-> n \div Limb, lo |-> n % Limb]

\* mutant: a value that leaves u32 wraps around
U32Push_wrapping(v, d) ==
    LET lo10 == v.lo * 10 + d
        hi10 == v.hi * 10 + (lo10 \div Limb)
    IN  [ok |-> TRUE, val |-> [hi |-> hi10 % Limb, lo |-> lo10 % Limb]]

\* one decimal digit appended to a value; ok is FALSE when it leaves u32
U32Push(v, d) ==
    LET lo10 == v.lo * 10 + d
        hi10 == v.hi * 10 + (lo10 \div Limb)
    IN  [ok |-> hi10 < Limb, val |-> [hi |-> hi10 % Limb, lo |-> lo10 % Limb]]

RECURSIVE U32Parse(_, _)
U32Pushed(s, r) ==
    IF r.ok THEN U32Parse(Tail(s), r.val) ELSE [ok |-> FALSE, val |-> U32(0)]

U32Parse(s, acc) ==
    IF s = <<>> THEN [ok |-> TRUE, val |-> acc]
    ELSE U32Pushed(s, U32Push(acc, DigitValue(Head(s))))

\* str::parse::<u32> with the custom error of parse_u32
parse_u32(s) ==
    IF s = <<>> THEN [ok |-> FALSE, val |-> U32(0)] ELSE U32Parse(s, U32(0))

(***************************************************************************)
(* Tokens.                                                                 *)
(***************************************************************************)
Token_new(tag, val, lexeme) == [tag |-> tag, val |-> val, lexeme |-> lexeme]

\* TokenTag equality (derive(PartialEq)): same variant and same payload
TagEq(tok, tag, val) == tok.tag = tag /\ tok.val = val

(***************************************************************************)
(* Scanner: the character iterator with current and one lookahead.         *)
(***************************************************************************)
advance(sc) ==
    [current |-> sc.next,
     next    |-> IF sc.chars = <<>> THEN None ELSE Head(sc.chars),
     chars   |-> IF sc.chars = <<>> THEN <<>> ELSE Tail(sc.chars)]

Scanner_new(command_text) ==
    advance(advance([current |-> None, next |-> None, chars |-> command_text]))

RECURSIVE skip_whitespace(_)
skip_whitespace(sc) ==
    IF sc.current # None /\ is_whitespace(sc.current)
    THEN skip_whitespace(advance(sc))
    ELSE sc

\* Results of the scanner's fallible functions: err = "" is Ok.
NoScanner == [current |-> None, next |-> None, chars |-> <<>>]
NoToken == Token_new("EndOfCommand", U32(0), <<>>)
ScanOk(tok, sc) == [err |-> "", token |-> tok, scanner |-> sc]
ScanErr(msg) == [err |-> msg, token |-> NoToken, scanner |-> NoScanner]

(***************************************************************************)
(* Scanner::word: one arm of the match on (current, state), by state.  An  *)
(* arm yields the next state, the characters pushed and whether the loop   *)
(* goes on ("advance"), ends ("break") or fails ("err").                   *)
(***************************************************************************)
Arm(do, state, push, err) == [do |-> do, state |-> state, push |-> push, err |-> err]

Normal_arm(c) ==
    IF c = None THEN Arm("break", "Normal", <<>>, "")
    ELSE IF c = BS THEN Arm("advance", "BackSpace", <<>>, "")
    ELSE IF c = SQ THEN Arm("advance", "InSingleQuote", <<>>, "")
    ELSE IF c = DQ THEN Arm("advance", "InDoubleQuote", <<>>, "")
    ELSE IF is_whitespace(c) THEN Arm("break", "Normal", <<>>, "")
    ELSE Arm("advance", "Normal", <<c>>, "")

\* mutant: the backslash is an escape inside single quotes too
InSingleQuote_arm_escape(c) ==
    IF c = None THEN Arm("err", "InSingleQuote", <<>>, "unclosed single quote")
    ELSE IF c = BS THEN Arm("advance", "InSingleQuote", <<>>, "")
    ELSE IF c = SQ THEN Arm("advance", "Normal", <<>>, "")
    ELSE Arm("advance", "InSingleQuote", <<c>>, "")

InSingleQuote_arm(c) ==
    IF c = None THEN Arm("err", "InSingleQuote", <<>>, "unclosed single quote")
    ELSE IF c = BS THEN Arm("advance", "InSingleQuote", <<BS>>, "")
    ELSE IF c = SQ THEN Arm("advance", "Normal", <<>>, "")
    ELSE IF c = DQ THEN Arm("advance", "InSingleQuote", <<DQ>>, "")
    ELSE Arm("advance", "InSingleQuote", <<c>>, "")

InDoubleQuote_arm(c) ==
    IF c = None THEN Arm("err", "InDoubleQuote", <<>>, "unclosed double quote")
    ELSE IF c = BS THEN Arm("advance", "QuotedBackSpace", <<>>, "")
    ELSE IF c = SQ THEN Arm("advance", "InDoubleQuote", <<SQ>>, "")
    ELSE IF c = DQ THEN Arm("advance", "Normal", <<>>, "")
    ELSE Arm("advance", "InDoubleQuote", <<c>>, "")

\* mutant: the backslash is dropped before every character
QuotedBackSpace_arm_drop(c) ==
    IF c = None THEN Arm("err", "QuotedBackSpace", <<>>, "unclosed double quote")
    ELSE Arm("advance", "InDoubleQuote", <<c>>, "")

QuotedBackSpace_arm(c) ==
    IF c = None THEN Arm("err", "QuotedBackSpace", <<>>, "unclosed double quote")
    ELSE IF c = DQ \/ c = BS THEN Arm("advance", "InDoubleQuote", <<c>>, "")
    ELSE Arm("advance", "InDoubleQuote", <<BS, c>>, "")

BackSpace_arm(c) ==
    IF c = None THEN Arm("err", "BackSpace", <<>>, "dangling back space")
    ELSE Arm("advance", "Normal", <<c>>, "")

word_arm(c, state) ==
    IF state = "Normal" THEN Normal_arm(c)
    ELSE IF state = "InSingleQuote" THEN InSingleQuote_arm(c)
    ELSE IF state = "InDoubleQuote" THEN InDoubleQuote_arm(c)
    ELSE IF state = "QuotedBackSpace" THEN QuotedBackSpace_arm(c)
    ELSE BackSpace_arm(c)

RECURSIVE word_loop(_, _, _)
word_step(sc, s, arm) ==
    IF arm.do = "err" THEN [err |-> arm.err, lexeme |-> <<>>, scanner |-> NoScanner]
    ELSE IF arm.do = "break" THEN [err |-> "", lexeme |-> s, scanner |-> sc]
    ELSE word_loop(advance(sc), arm.state, s \o arm.push)

word_loop(sc, state, s) == word_step(sc, s, word_arm(sc.current, state))

word(sc) == word_loop(sc, "Normal", <<>>)

(***************************************************************************)
(* Scanner::integer.                                                       *)
(***************************************************************************)
RECURSIVE integer_digits(_, _)
integer_digits(sc, lexeme) ==
    IF sc.current # None /\ is_digit(sc.current)
    THEN integer_digits(advance(sc), Append(lexeme, sc.current))
    ELSE [lexeme |-> lexeme, scanner |-> sc]

\* the token of a digit run: a descriptor-qualified redirect or an Integer
integer_token(lex, sc, i) ==
    IF ~i.ok THEN ScanErr("couldn't parse as an unsigned 32 bit integer")
    ELSE IF sc.current = ">" /\ sc.next = ">"
    THEN ScanOk(Token_new("RedirectOutAppendWithFileDescriptor", i.val,
                          lex \o <<">", ">">>), advance(advance(sc)))
    ELSE IF sc.current = ">"
    THEN ScanOk(Token_new("RedirectOutWithFileDescriptor", i.val, Append(lex, ">")),
                advance(sc))
    ELSE ScanOk(Token_new("Integer", i.val, lex), sc)

integer_run(run) == integer_token(run.lexeme, run.scanner, parse_u32(run.lexeme))

integer(sc) == integer_run(integer_digits(sc, <<>>))

(***************************************************************************)
(* Scanner::next_token.                                                    *)
(***************************************************************************)
\* the last arm: the Word token of the lexeme word() returns, or its error
word_token(wd) ==
    IF wd.err # "" THEN ScanErr(wd.err)
    ELSE ScanOk(Token_new("Word", U32(0), wd.lexeme), wd.scanner)

\* mutant: the Pipe token is returned without advancing past the `|`
next_token_at_pipe_stays(sc) ==
    IF sc.current = None THEN ScanOk(Token_new("EndOfCommand", U32(0), <<>>), sc)
    ELSE IF sc.current = "|" THEN ScanOk(Token_new("Pipe", U32(0), <<"|">>), sc)
    ELSE IF sc.current = ">" /\ sc.next = ">"
    THEN ScanOk(Token_new("RedirectOutAppend", U32(0), <<">", ">">>), advance(advance(sc)))
    ELSE IF sc.current = ">"
    THEN ScanOk(Token_new("RedirectOut", U32(0), <<">">>), advance(sc))
    ELSE IF is_digit(sc.current) THEN integer(sc)
    ELSE word_token(word(sc))

\* the match on self.current, after skip_whitespace
next_token_at(sc) ==
    IF sc.current = None THEN ScanOk(Token_new("EndOfCommand", U32(0), <<>>), sc)
    ELSE IF sc.current = "|" THEN ScanOk(Token_new("Pipe", U32(0), <<"|">>), advance(sc))
    ELSE IF sc.current = ">" /\ sc.next = ">"
    THEN ScanOk(Token_new("RedirectOutAppend", U32(0), <<">", ">">>), advance(advance(sc)))
    ELSE IF sc.current = ">"
    THEN ScanOk(Token_new("RedirectOut", U32(0), <<">">>), advance(sc))
    ELSE IF is_digit(sc.current) THEN integer(sc)
    ELSE word_token(word(sc))

next_token(sc) == next_token_at(skip_whitespace(sc))

(***************************************************************************)
(* Parser results.  st is "ok", "err" (anyhow::Error, with its message) or *)
(* "panic" (a failed assert!, which unwinds out of parse and of main).     *)
(***************************************************************************)
ErrMsg(t, lex, n) == [text |-> t, lexeme |-> lex, n |-> n]
NoMsg == ErrMsg("", <<>>, U32(0))
NoState == [scanner |-> NoScanner, current |-> NoToken]

Ok(ps, val) == [st |-> "ok", msg |-> NoMsg, ps |-> ps, val |-> val]
Err(msg) == [st |-> "err", msg |-> msg, ps |-> NoState, val |-> <<>>]
Panic == [st |-> "panic", msg |-> NoMsg, ps |-> NoState, val |-> <<>>]

(***************************************************************************)
(* The ? operator: an error or a panic of r is returned at once, otherwise *)
(* the rest of the function goes on with r.                                *)
(***************************************************************************)
Try(r, rest(_)) == IF r.st # "ok" THEN r ELSE rest(r)

(***************************************************************************)
(* ParserState.                                                            *)
(***************************************************************************)
\* the parser state after a call of next_token, or the scan error
Scanned(r) ==
    IF r.err # "" THEN Err(ErrMsg(r.err, <<>>, U32(0)))
    ELSE Ok([scanner |-> r.scanner, current |-> r.token], <<>>)

ParserState_new(command) == Scanned(next_token(Scanner_new(command)))

ParserState_advance(ps) == Scanned(next_token(ps.scanner))

\* val is the token that was current before the advance
advance_keep_current(ps) ==
    Try(ParserState_advance(ps), LAMBDA r : Ok(r.ps, ps.current))

\* val is is_match
matches(ps, expected_tag) ==
    IF ps.current.tag = expected_tag
    THEN Try(ParserState_advance(ps), LAMBDA r : Ok(r.ps, TRUE))
    ELSE Ok(ps, FALSE)

\* val is the matched lexeme
expect_lexeme(ps, tag) ==
    IF ps.current.tag = tag
    THEN Try(advance_keep_current(ps), LAMBDA r : Ok(r.ps, r.val.lexeme))
    ELSE Err(ErrMsg("expected but found", ps.current.lexeme, U32(0)))

(***************************************************************************)
(* The command model (the types parser.rs builds and main.rs consumes).    *)
(***************************************************************************)
Redirection_None == [kind |-> "None", filename |-> <<>>, is_append |-> FALSE]
Redirection_StdOut(filename, is_append) ==
    [kind |-> "StdOut", filename |-> filename, is_append |-> is_append]
Redirection_StdErr(filename, is_append) ==
    [kind |-> "StdErr", filename |-> filename, is_append |-> is_append]

BuiltIn_Cd(path) == [kind |-> "Cd", args |-> <<path>>, code |-> U32(0)]
BuiltIn_Echo(args) == [kind |-> "Echo", args |-> args, code |-> U32(0)]
BuiltIn_Exit(status) == [kind |-> "Exit", args |-> <<>>, code |-> status]
BuiltIn_Pwd == [kind |-> "Pwd", args |-> <<>>, code |-> U32(0)]
BuiltIn_Type(command) == [kind |-> "Type", args |-> <<command>>, code |-> U32(0)]
NoBuiltIn == [kind |-> "None", args |-> <<>>, code |-> U32(0)]
\* BuiltIn::History(Option<usize>), the built-in of main.rs that the parser
\* of this snapshot does not produce
BuiltIn_History(limit) ==
    [kind |-> "History", args |-> <<>>, code |-> U32(0), limit |-> limit]

Command_BuiltIn(built_in, redirection) ==
    [tag |-> "BuiltIn", built_in |-> built_in, args |-> <<>>, redirection |-> redirection]
Command_External(args, redirection) ==
    [tag |-> "External", built_in |-> NoBuiltIn, args |-> args, redirection |-> redirection]

(***************************************************************************)
(* Lexemes the parser compares against.                                    *)
(***************************************************************************)
L_cd == <<"c", "d">>
L_echo == <<"e", "c", "h", "o">>
L_exit == <<"e", "x", "i", "t">>
L_pwd == <<"p", "w", "d">>
L_type == <<"t", "y", "p", "e">>
L_history == <<"h", "i", "s", "t", "o", "r", "y">>

(***************************************************************************)
(* The built-ins' own grammars.                                            *)
(***************************************************************************)
RECURSIVE collect_loop_words_only(_, _)
\* mutant: only Word tokens are collected
collect_loop_words_only(ps, items) ==
    IF ps.current.tag = "Word"
    THEN Try(ParserState_advance(ps),
             LAMBDA r : collect_loop_words_only(r.ps, Append(items, ps.current.lexeme)))
    ELSE Ok(ps, items)

RECURSIVE collect_loop(_, _)
collect_loop(ps, items) ==
    IF ps.current.tag = "Word" \/ ps.current.tag = "Integer"
    THEN Try(ParserState_advance(ps),
             LAMBDA r : collect_loop(r.ps, Append(items, ps.current.lexeme)))
    ELSE Ok(ps, items)

collect_integer_word(ps) == collect_loop(ps, <<>>)

\* mutant: without a path cd goes to the home directory
cd_optional_path(ps) ==
    Try(ParserState_advance(ps), LAMBDA a :
    IF a.ps.current.tag = "Word"
    THEN Try(expect_lexeme(a.ps, "Word"), LAMBDA path :
         Ok(path.ps, BuiltIn_Cd(path.val)))
    ELSE Ok(a.ps, BuiltIn_Cd(<<"~">>)))

cd(ps) ==
    Try(ParserState_advance(ps), LAMBDA a :
    Try(expect_lexeme(a.ps, "Word"), LAMBDA path :
    Ok(path.ps, BuiltIn_Cd(path.val))))

echo(ps) ==
    Try(ParserState_advance(ps), LAMBDA a :
    Try(collect_integer_word(a.ps), LAMBDA args :
    Ok(args.ps, BuiltIn_Echo(args.val))))

\* mutant: the status is required, as in the earlier grammar
exit_requires_status(ps) ==
    Try(ParserState_advance(ps), LAMBDA a :
    IF a.ps.current.tag = "Integer"
    THEN Try(ParserState_advance(a.ps), LAMBDA b :
         Ok(b.ps, BuiltIn_Exit(a.ps.current.val)))
    ELSE Err(ErrMsg("expected but found", a.ps.current.lexeme, U32(0))))

exit(ps) ==
    Try(ParserState_advance(ps), LAMBDA a :
    IF a.ps.current.tag = "Integer"
    THEN Try(ParserState_advance(a.ps), LAMBDA b :
         Ok(b.ps, BuiltIn_Exit(a.ps.current.val)))
    ELSE Ok(a.ps, BuiltIn_Exit(U32(0))))

pwd(ps) ==
    Try(ParserState_advance(ps), LAMBDA a : Ok(a.ps, BuiltIn_Pwd))

type_builtin(ps) ==
    Try(ParserState_advance(ps), LAMBDA a :
    Try(expect_lexeme(a.ps, "Word"), LAMBDA command :
    Ok(command.ps, BuiltIn_Type(command.val))))

\* val is the BuiltIn, or NoBuiltIn for Option::None
built_in(ps) ==
    IF ps.current.tag # "Word" THEN Panic
    ELSE IF ps.current.lexeme = L_cd THEN cd(ps)
    ELSE IF ps.current.lexeme = L_echo THEN echo(ps)
    ELSE IF ps.current.lexeme = L_exit THEN exit(ps)
    ELSE IF ps.current.lexeme = L_pwd THEN pwd(ps)
    ELSE IF ps.current.lexeme = L_type THEN type_builtin(ps)
    ELSE Ok(ps, NoBuiltIn)

(***************************************************************************)
(* Redirections.                                                           *)
(***************************************************************************)
redirection_filename(ps) ==
    Try(ParserState_advance(ps), LAMBDA a : expect_lexeme(a.ps, "Word"))

\* the Redirection the current token selects, before its filename is read:
\* "None", "StdOut", "StdErr" or "Unrecognized"
\* mutant: the descriptor number is ignored, every N> is standard output
redirection_kind_any_fd(tok) ==
    IF tok.tag = "RedirectOut" \/ tok.tag = "RedirectOutWithFileDescriptor"
    THEN [kind |-> "StdOut", is_append |-> FALSE]
    ELSE IF tok.tag = "RedirectOutAppend"
            \/ tok.tag = "RedirectOutAppendWithFileDescriptor"
    THEN [kind |-> "StdOut", is_append |-> TRUE]
    ELSE [kind |-> "None", is_append |-> FALSE]

redirection_kind(tok) ==
    IF tok.tag = "RedirectOut" \/ TagEq(tok, "RedirectOutWithFileDescriptor", U32(1))
    THEN [kind |-> "StdOut", is_append |-> FALSE]
    ELSE IF tok.tag = "RedirectOutAppend"
            \/ TagEq(tok, "RedirectOutAppendWithFileDescriptor", U32(1))
    THEN [kind |-> "StdOut", is_append |-> TRUE]
    ELSE IF TagEq(tok, "RedirectOutWithFileDescriptor", U32(2))
    THEN [kind |-> "StdErr", is_append |-> FALSE]
    ELSE IF TagEq(tok, "RedirectOutAppendWithFileDescriptor", U32(2))
    THEN [kind |-> "StdErr", is_append |-> TRUE]
    ELSE IF tok.tag = "RedirectOutWithFileDescriptor"
            \/ tok.tag = "RedirectOutAppendWithFileDescriptor"
    THEN [kind |-> "Unrecognized", is_append |-> FALSE]
    ELSE [kind |-> "None", is_append |-> FALSE]

\* the Redirection of kind k with the filename that follows the operator
redirection_to(ps, k) ==
    Try(redirection_filename(ps), LAMBDA f :
    IF k.kind = "StdOut" THEN Ok(f.ps, Redirection_StdOut(f.val, k.is_append))
    ELSE Ok(f.ps, Redirection_StdErr(f.val, k.is_append)))

redirection_of(ps, k) ==
    IF k.kind = "None" THEN Ok(ps, Redirection_None)
    ELSE IF k.kind = "Unrecognized"
    THEN Err(ErrMsg("unrecognized file descriptor", <<>>, ps.current.val))
    ELSE redirection_to(ps, k)

redirection(ps) == redirection_of(ps, redirection_kind(ps.current))

(***************************************************************************)
(* command, pipeline, parse.                                               *)
(***************************************************************************)
command(ps) ==
    IF ps.current.tag # "Word" THEN Panic
    ELSE Try(built_in(ps), LAMBDA b :
         IF b.val # NoBuiltIn
         THEN Try(redirection(b.ps), LAMBDA r :
              Ok(r.ps, Command_BuiltIn(b.val, r.val)))
         ELSE Try(collect_integer_word(b.ps), LAMBDA args :
              Try(redirection(args.ps), LAMBDA r :
              Ok(r.ps, Command_External(args.val, r.val)))))

\* val is the pipeline, a sequence of one (Single) or two (Double) commands
pipeline(ps) ==
    Try(command(ps), LAMBDA left_command :
    Try(matches(left_command.ps, "Pipe"), LAMBDA m :
    IF m.val
    THEN Try(command(m.ps), LAMBDA right_command :
         Ok(right_command.ps, <<left_command.val, right_command.val>>))
    ELSE Ok(m.ps, <<left_command.val>>)))

\* val is [some, cmds]: Option<Pipeline>; ps is the parser state parse ends in
parse(command_text) ==
    Try(ParserState_new(command_text), LAMBDA state :
    IF state.ps.current.tag = "Word"
    THEN Try(pipeline(state.ps), LAMBDA p : Ok(p.ps, [some |-> TRUE, cmds |-> p.val]))
    ELSE IF state.ps.current.tag = "EndOfCommand"
    THEN Ok(state.ps, [some |-> FALSE, cmds |-> <<>>])
    ELSE Err(ErrMsg("unexpected token", state.ps.current.lexeme, state.ps.current.val)))

(***************************************************************************)
(* State.                                                                  *)
(*   text, scanner, wstate, lexeme, tokens, scan_err: a scanner at work on *)
(*     one text, char by char: wstate is "Idle" between two next_token     *)
(*     calls and the WordState inside Scanner::word, lexeme is word's s;   *)
(*   parsed: the result of parse(text), "unset" before the call.           *)
(***************************************************************************)
VARIABLES text, scanner, wstate, lexeme, tokens, scan_err, parsed

scanVars == <<text, scanner, wstate, lexeme, tokens, scan_err, parsed>>

(***************************************************************************)
(* State of the shell process (main and eval) and of its environment.      *)
(*   pc: where main is: "read" (at readline), "eval" (eval entered, before *)
(*     parse), "stage" (in the loop over the pipeline), "write" (in        *)
(*     write_all into a child's stdin), "wait" (in the loop over           *)
(*     children), "exited" (process::exit), "panicked" (a failed assert);  *)
(*   history: the lines read so far;                                       *)
(*   the_pipeline, stage_i: the parsed pipeline and eval's loop index i,   *)
(*     counted from 1;                                                     *)
(*   children: eval's Vec<Option<Child>>;                                  *)
(*   built_in_out: eval's Option<Vec<u8>>;                                 *)
(*   spawned: the Child of the stage being evaluated, while its stdin is   *)
(*     written; pending: the part of the buffer write_all has yet to write;*)
(*   wait_i: the index of the wait loop;                                   *)
(*   exit_code: the status process::exit was called with;                  *)
(*   procs, pipes, files, cwd, shell_out, shell_err: the operating system: *)
(*     every process spawned so far, every pipe, the regular files, the    *)
(*     working directory, and the bytes on the shell's own standard output *)
(*     and standard error;                                                 *)
(*   home: what std::env::home_dir() returns in this run.                  *)
(***************************************************************************)
VARIABLES pc, history, the_pipeline, stage_i, children, built_in_out, spawned,
          pending, wait_i, exit_code, procs, pipes, files, cwd, shell_out,
          shell_err, home

evalVars == <<the_pipeline, stage_i, children, built_in_out, spawned, pending,
              wait_i>>

replVars == <<pc, history, the_pipeline, stage_i, children, built_in_out, spawned,
              pending, wait_i, exit_code, procs, pipes, files, cwd, shell_out,
              shell_err, home>>

vars == <<text, scanner, wstate, lexeme, tokens, scan_err, parsed,
          pc, history, the_pipeline, stage_i, children, built_in_out, spawned,
          pending, wait_i, exit_code, procs, pipes, files, cwd, shell_out,
          shell_err, home>>

Unset == [st |-> "unset", msg |-> NoMsg, ps |-> NoState, val |-> <<>>]

(***************************************************************************)
(* Input sets.                                                             *)
(***************************************************************************)
\* every sequence over S of length 0..n
SeqsUpTo(S, n) == UNION {[1..k -> S] : k \in 0..n}

RECURSIVE Join(_)
\* the items of ws, separated by single spaces
Join(ws) ==
    IF ws = <<>> THEN <<>>
    ELSE IF Len(ws) = 1 THEN Head(ws)
    ELSE Head(ws) \o <<" ">> \o Join(Tail(ws))

Alphabet == {"a", "1", " ", SQ, DQ, BS, "|", ">"}

CharTexts == SeqsUpTo(Alphabet, MaxTextLen)

\* the largest u32 as it is written
U32MaxText == <<"4", "2", "9", "4", "9", "6", "7", "2", "9", "5">>

\* texts with digit runs at and beyond the edge of u32, with leading zeros
\* and with letters after the digits
NumberTexts ==
    {U32MaxText, Append(U32MaxText, ">"), U32MaxText \o <<">", ">", "a">>,
     Append(SubSeq(U32MaxText, 1, 9), "6"), SubSeq(U32MaxText, 1, 9) \o <<"6", ">">>,
     Append(U32MaxText, "0"), <<"0", "0">> \o U32MaxText,
     <<"0", "0", "7", " ", "0">>, <<"6", "5", "5", "3", "6", ">", ">", "f">>,
     <<"1", "2", "a", "b", " ", "a", "1", "2">>, <<"2", ">", "a", "2", ">", "a">>}

Items == {L_cd, L_echo, L_exit, L_pwd, L_type, L_history,
          <<"a">>, <<"1">>, <<"0", "7">>, <<"|">>, <<">">>, <<"2", ">">>}

Heads == {<<<<"a">>>>, <<L_echo>>, <<L_echo, <<"a">>, <<"1">>>>, <<L_pwd>>,
          <<L_cd, <<"a">>>>, <<L_exit>>, <<L_exit, <<"1">>>>, <<L_type, <<"a">>>>}

Ops == {<<">">>, <<">", ">">>, <<"1", ">">>, <<"1", ">", ">">>, <<"2", ">">>,
        <<"2", ">", ">">>, <<"3", ">">>, <<"0", ">", ">">>, <<"1", "2", ">">>,
        <<"0", "2", ">">>}

Tails == {<<>>, <<<<"a">>>>, <<<<"1">>>>, <<<<"|">>>>, <<<<"a">>, <<"a">>>>,
          <<<<"a">>, <<"|">>, <<"a">>>>, <<<<"a">>, <<">">>, <<"a">>>>}

\* the texts made of whitespace only, the empty text among them
WhitespaceChars == {" ", "\t", "\r", "\n"}

WhitespaceTexts == SeqsUpTo(WhitespaceChars, MaxTextLen)

WordTexts ==
    {Join(ws) : ws \in SeqsUpTo(Items, MaxWords)}
    \cup {Join(h \o <<op>> \o t) : h \in Heads, op \in Ops, t \in Tails}

(***************************************************************************)
(* The environment: directories, files, programs.                          *)
(***************************************************************************)
\* the directories that exist: / and /d; paths are texts
Dirs == {<<"/">>, <<"/", "d">>}

\* a path as the OS resolves it against the working directory
Resolve(dir, path) ==
    IF path # <<>> /\ path[1] = "/" THEN path
    ELSE IF dir = <<"/">> THEN dir \o path
    ELSE dir \o <<"/">> \o path

FileNames == {<<"f">>, <<"d">>}

FilePaths == {Resolve(d, n) : d \in Dirs, n \in FileNames} \ Dirs

NoFile == [exists |-> FALSE, data |-> <<>>]

\* the programs found on PATH: a copies its input and writes more bytes than
\* a pipe holds, t exits at once without reading or writing
PathPrograms == {<<"a">>, <<"t">>}
ReadsStdin(prog) == prog = <<"a">>
OutputLen(prog) == IF prog = <<"a">> THEN PipeCap + 1 ELSE 0

\* the home directories a run may have: the root, a directory that does not
\* exist (any more), or none that is known
Homes ==
    {[some |-> TRUE, path |-> <<"/">>], [some |-> TRUE, path |-> <<"/", "h">>],
     [some |-> FALSE, path |-> <<>>]}

\* std::env::home_dir()
home_dir == home

(***************************************************************************)
(* open_file, change_directory, the built-ins.                             *)
(***************************************************************************)
\* mutant: the file is opened for appending in both modes
open_file_never_truncates(fs, dir, filename, is_append) ==
    LET path == Resolve(dir, filename)
    IN  IF path \in Dirs
        THEN [ok |-> FALSE, path |-> path, files |-> fs,
              msg |-> <<"Is a directory (os error 21)">>]
        ELSE [ok |-> TRUE, path |-> path,
              files |-> [fs EXCEPT ![path] = [exists |-> TRUE, data |-> @.data]],
              msg |-> <<>>]

\* OpenOptions: write, create, and append or truncate; a directory cannot be
\* opened for writing
open_file(fs, dir, filename, is_append) ==
    LET path == Resolve(dir, filename)
    IN  IF path \in Dirs
        THEN [ok |-> FALSE, path |-> path, files |-> fs,
              msg |-> <<"Is a directory (os error 21)">>]
        ELSE [ok |-> TRUE, path |-> path,
              files |-> [fs EXCEPT ![path] =
                            [exists |-> TRUE,
                             data |-> IF is_append THEN @.data ELSE <<>>]],
              msg |-> <<>>]

\* bytes written through an open file
write_file(fs, path, bytes) == [fs EXCEPT ![path].data = @ \o bytes]

change_directory(dir, path) ==
    LET target == Resolve(dir, path)
    IN  IF target \in Dirs
        THEN [ok |-> TRUE, cwd |-> target, msg |-> <<>>]
        ELSE [ok |-> FALSE, cwd |-> dir,
              msg |-> path \o <<": No such file or directory">>]

\* the names `type` reports as shell builtins
TypeBuiltIns == {L_cd, L_echo, L_exit, L_history, L_pwd, L_type}

search_for_executable_file(file_name) ==
    IF file_name \in PathPrograms
    THEN [some |-> TRUE, path |-> <<"/bin/">> \o file_name]
    ELSE [some |-> FALSE, path |-> <<>>]

RECURSIVE EchoText_trailing_space(_)
\* mutant: every argument is followed by a space
EchoText_trailing_space(args) ==
    IF args = <<>> THEN <<>>
    ELSE Head(args) \o <<" ">> \o EchoText_trailing_space(Tail(args))

RECURSIVE EchoText(_)
\* args[0], then each further argument after one space
EchoText(args) ==
    IF args = <<>> THEN <<>>
    ELSE IF Len(args) = 1 THEN args[1]
    ELSE EchoText(SubSeq(args, 1, Len(args) - 1)) \o <<" ">> \o args[Len(args)]

BuiltInResult(st, stdout, stderr, dir, msg, code) ==
    [st |-> st, stdout |-> stdout, stderr |-> stderr, cwd |-> dir, msg |-> msg,
     code |-> code]

\* an integer as {} formats it
RECURSIVE Decimal(_)
Decimal(n) ==
    IF n < 10 THEN <<Digits[n + 1]>>
    ELSE Decimal(n \div 10) \o <<Digits[(n % 10) + 1]>>

\* mutant: a limit of 0 is taken as no limit
history_skip_zero_is_all(n, limit) ==
    IF limit.some /\ limit.val >= n THEN 0
    ELSE IF limit.some /\ limit.val > 0 THEN n - limit.val
    ELSE 0

\* the entries the History arm skips: let skip = match limit
history_skip(n, limit) ==
    IF limit.some /\ limit.val >= n THEN 0
    ELSE IF limit.some THEN n - limit.val
    ELSE 0

RECURSIVE history_lines(_, _)
\* for (i, command_text) in history.iter().enumerate().skip(skip): the lines
\* written for the entries after the i-th (i counted from 0)
history_lines(hist, i) ==
    IF i >= Len(hist) THEN <<>>
    ELSE <<"\t">> \o Decimal(i + 1) \o <<"\t">> \o hist[i + 1] \o <<"\n">>
         \o history_lines(hist, i + 1)

\* eval_built_in: what the built-in writes to its two sinks, the working
\* directory it leaves, and whether it returns Ok ("ok"), an error ("err")
\* or does not return because the process exits ("exit")
eval_built_in(b, dir) ==
    IF b.kind = "Echo"
    THEN BuiltInResult("ok", EchoText(b.args) \o <<"\n">>, <<>>, dir, <<>>, U32(0))
    ELSE IF b.kind = "Cd" /\ b.args[1] = <<"~">>
    THEN IF home_dir.some
         THEN LET r == change_directory(dir, home_dir.path)
              IN  IF r.ok THEN BuiltInResult("ok", <<>>, <<>>, r.cwd, <<>>, U32(0))
                  ELSE BuiltInResult("err", <<>>, <<>>, dir, r.msg, U32(0))
         ELSE BuiltInResult("ok", <<>>, <<"cd: Home directory is unknown", "\n">>,
                            dir, <<>>, U32(0))
    ELSE IF b.kind = "Cd"
    THEN LET r == change_directory(dir, b.args[1])
         IN  IF r.ok THEN BuiltInResult("ok", <<>>, <<>>, r.cwd, <<>>, U32(0))
             ELSE BuiltInResult("ok", <<>>, <<"cd: ">> \o r.msg \o <<"\n">>, dir,
                                <<>>, U32(0))
    ELSE IF b.kind = "Exit"
    THEN BuiltInResult("exit", <<>>, <<>>, dir, <<>>, b.code)
    ELSE IF b.kind = "Pwd"
    THEN BuiltInResult("ok", dir \o <<"\n">>, <<>>, dir, <<>>, U32(0))
    ELSE IF b.kind = "History"
    THEN BuiltInResult("ok", history_lines(history, history_skip(Len(history), b.limit)),
                       <<>>, dir, <<>>, U32(0))
    ELSE \* Type
         IF b.args[1] \in TypeBuiltIns
         THEN BuiltInResult("ok", b.args[1] \o <<" is a shell builtin", "\n">>, <<>>,
                            dir, <<>>, U32(0))
         ELSE LET e == search_for_executable_file(b.args[1])
              IN  IF e.some
                  THEN BuiltInResult("ok", b.args[1] \o <<" is ">> \o e.path \o <<"\n">>,
                                     <<>>, dir, <<>>, U32(0))
                  ELSE BuiltInResult("ok", <<>>, b.args[1] \o <<": not found", "\n">>,
                                     dir, <<>>, U32(0))

\* mutant: under a stdout redirection the built-in's output is written to
\* the file and returned in the buffer as well
eval_built_in_command_tees_stdout(c, fs, dir) ==
    LET red == c.redirection
        o == IF red.kind = "None"
             THEN [ok |-> TRUE, path |-> <<>>, files |-> fs, msg |-> <<>>]
             ELSE open_file(fs, dir, red.filename, red.is_append)
        r == eval_built_in(c.built_in, dir)
    IN  IF ~o.ok
        THEN [st |-> "err", files |-> fs, cwd |-> dir, buf |-> <<>>,
              console_err |-> <<>>, msg |-> o.msg, code |-> U32(0)]
        ELSE IF r.st # "ok"
        THEN [st |-> r.st, files |-> o.files, cwd |-> dir, buf |-> <<>>,
              console_err |-> <<>>, msg |-> r.msg, code |-> r.code]
        ELSE IF red.kind = "StdOut"
        THEN [st |-> "ok", files |-> write_file(o.files, o.path, r.stdout),
              cwd |-> r.cwd, buf |-> r.stdout, console_err |-> r.stderr, msg |-> <<>>,
              code |-> U32(0)]
        ELSE IF red.kind = "StdErr"
        THEN [st |-> "ok", files |-> write_file(o.files, o.path, r.stderr),
              cwd |-> r.cwd, buf |-> r.stdout, console_err |-> <<>>, msg |-> <<>>,
              code |-> U32(0)]
        ELSE [st |-> "ok", files |-> o.files, cwd |-> r.cwd, buf |-> r.stdout,
              console_err |-> r.stderr, msg |-> <<>>, code |-> U32(0)]

\* eval_built_in_command: the redirection file is opened, then the built-in
\* runs with its sinks; buf is the Vec<u8> returned, console_err what went to
\* the shell's own standard error
eval_built_in_command(c, fs, dir) ==
    LET red == c.redirection
        o == IF red.kind = "None"
             THEN [ok |-> TRUE, path |-> <<>>, files |-> fs, msg |-> <<>>]
             ELSE open_file(fs, dir, red.filename, red.is_append)
        r == eval_built_in(c.built_in, dir)
    IN  IF ~o.ok
        THEN [st |-> "err", files |-> fs, cwd |-> dir, buf |-> <<>>,
              console_err |-> <<>>, msg |-> o.msg, code |-> U32(0)]
        ELSE IF r.st # "ok"
        THEN [st |-> r.st, files |-> o.files, cwd |-> dir, buf |-> <<>>,
              console_err |-> <<>>, msg |-> r.msg, code |-> r.code]
        ELSE IF red.kind = "StdOut"
        THEN [st |-> "ok", files |-> write_file(o.files, o.path, r.stdout),
              cwd |-> r.cwd, buf |-> <<>>, console_err |-> r.stderr, msg |-> <<>>,
              code |-> U32(0)]
        ELSE IF red.kind = "StdErr"
        THEN [st |-> "ok", files |-> write_file(o.files, o.path, r.stderr),
              cwd |-> r.cwd, buf |-> r.stdout, console_err |-> <<>>, msg |-> <<>>,
              code |-> U32(0)]
        ELSE [st |-> "ok", files |-> o.files, cwd |-> r.cwd, buf |-> r.stdout,
              console_err |-> r.stderr, msg |-> <<>>, code |-> U32(0)]

(***************************************************************************)
(* The shell and its environment when main enters its loop.                *)
(***************************************************************************)
\* Option<Vec<u8>>
NoBuf == [some |-> FALSE, buf |-> <<>>]
SomeBuf(buf) == [some |-> TRUE, buf |-> buf]

\* Option<Child>: the process and the pipe ends the Child keeps (0: None)
NoChild == [some |-> FALSE, pid |-> 0, stdin |-> 0, stdout |-> 0]
SomeChild(pid, stdin, stdout) ==
    [some |-> TRUE, pid |-> pid, stdin |-> stdin, stdout |-> stdout]

ShellStart ==
    /\ pc = "read"
    /\ history = <<>>
    /\ the_pipeline = <<>>
    /\ stage_i = 1
    /\ children = <<>>
    /\ built_in_out = NoBuf
    /\ spawned = NoChild
    /\ pending = <<>>
    /\ wait_i = 1
    /\ exit_code = U32(0)
    /\ procs = <<>>
    /\ pipes = <<>>
    /\ files = [p \in FilePaths |-> NoFile]
    /\ cwd = <<"/">>
    /\ shell_out = <<>>
    /\ shell_err = <<>>

(***************************************************************************)
(* ScanSpec: next_token called on one text until the end-of-input token or *)
(* an error, the loop of Scanner::word taken one iteration at a time.      *)
(***************************************************************************)
ScanInit ==
    /\ text \in CharTexts \cup NumberTexts
    /\ scanner = Scanner_new(text)
    /\ wstate = "Idle"
    /\ lexeme = <<>>
    /\ tokens = <<>>
    /\ scan_err = ""
    /\ parsed = Unset
    /\ ShellStart
    /\ home = [some |-> TRUE, path |-> <<"/">>]

ScanFinished ==
    \/ scan_err # ""
    \/ tokens # <<>> /\ tokens[Len(tokens)].tag = "EndOfCommand"

\* next_token dispatches to Scanner::word on the last arm of its match
StartsWord(sc) ==
    /\ sc.current # None
    /\ sc.current # "|"
    /\ sc.current # ">"
    /\ ~is_digit(sc.current)

\* the calls of next_token that have returned the end-of-input token
EndCalls == {i \in DOMAIN tokens : tokens[i].tag = "EndOfCommand"}

\* mutant: a call after the end-of-input token has been returned is an error
NextToken_fails_after_end ==
    /\ wstate = "Idle"
    /\ scan_err = ""
    /\ Cardinality(EndCalls) <= MaxLateCalls
    /\ LET sc == skip_whitespace(scanner)
       IN  IF EndCalls # {}
           THEN /\ scan_err' = "no more tokens"
                /\ UNCHANGED <<scanner, tokens, wstate, lexeme>>
           ELSE IF StartsWord(sc)
           THEN /\ scanner' = sc
                /\ wstate' = "Normal"
                /\ lexeme' = <<>>
                /\ UNCHANGED <<tokens, scan_err>>
           ELSE LET r == next_token(scanner)
                IN  /\ scanner' = (IF r.err = "" THEN r.scanner ELSE scanner)
                    /\ tokens' = (IF r.err = "" THEN Append(tokens, r.token) ELSE tokens)
                    /\ scan_err' = r.err
                    /\ UNCHANGED <<wstate, lexeme>>
    /\ UNCHANGED <<text, parsed>>
    /\ UNCHANGED replVars

\* a call of next_token: up to its return, or up to the entry of word(); the
\* scanner is called on after the end-of-input token, MaxLateCalls times
NextToken ==
    /\ wstate = "Idle"
    /\ scan_err = ""
    /\ Cardinality(EndCalls) <= MaxLateCalls
    /\ LET sc == skip_whitespace(scanner)
       IN  IF StartsWord(sc)
           THEN /\ scanner' = sc
                /\ wstate' = "Normal"
                /\ lexeme' = <<>>
                /\ UNCHANGED <<tokens, scan_err>>
           ELSE LET r == next_token(scanner)
                IN  /\ scanner' = (IF r.err = "" THEN r.scanner ELSE scanner)
                    /\ tokens' = (IF r.err = "" THEN Append(tokens, r.token) ELSE tokens)
                    /\ scan_err' = r.err
                    /\ UNCHANGED <<wstate, lexeme>>
    /\ UNCHANGED <<text, parsed>>
    /\ UNCHANGED replVars

\* one iteration of the loop of Scanner::word
WordLoop ==
    /\ wstate # "Idle"
    /\ LET arm == word_arm(scanner.current, wstate)
       IN  IF arm.do = "advance"
           THEN /\ scanner' = advance(scanner)
                /\ wstate' = arm.state
                /\ lexeme' = lexeme \o arm.push
                /\ UNCHANGED <<tokens, scan_err>>
           ELSE IF arm.do = "break"
           THEN /\ tokens' = Append(tokens, Token_new("Word", U32(0), lexeme))
                /\ wstate' = "Idle"
                /\ UNCHANGED <<scanner, lexeme, scan_err>>
           ELSE /\ scan_err' = arm.err
                /\ wstate' = "Idle"
                /\ UNCHANGED <<scanner, lexeme, tokens>>
    /\ UNCHANGED <<text, parsed>>
    /\ UNCHANGED replVars

ScanNext == NextToken \/ WordLoop

ScanSpec == ScanInit /\ [][ScanNext]_vars

(***************************************************************************)
(* ParseSpec: parse applied to one text; tokens is what repeated calls of  *)
(* next_token return on the same text.                                     *)
(***************************************************************************)
RECURSIVE ScanAll(_, _)
\* the tokens next_token returns up to the end-of-input token, or the error
ScanAll(sc, toks) ==
    LET r == next_token(sc)
    IN  IF r.err # "" THEN [err |-> r.err, tokens |-> toks]
        ELSE IF r.token.tag = "EndOfCommand"
        THEN [err |-> "", tokens |-> Append(toks, r.token)]
        ELSE ScanAll(r.scanner, Append(toks, r.token))

ParseInit ==
    /\ text \in WordTexts \cup WhitespaceTexts
    /\ scanner = Scanner_new(text)
    /\ wstate = "Idle"
    /\ lexeme = <<>>
    /\ tokens = <<>>
    /\ scan_err = ""
    /\ parsed = Unset
    /\ ShellStart
    /\ home = [some |-> TRUE, path |-> <<"/">>]

ParseText ==
    /\ parsed = Unset
    /\ parsed' = parse(text)
    /\ LET all == ScanAll(scanner, <<>>)
       IN  /\ tokens' = all.tokens
           /\ scan_err' = all.err
    /\ UNCHANGED <<text, scanner, wstate, lexeme>>
    /\ UNCHANGED replVars

ParseNext == ParseText

ParseSpec == ParseInit /\ [][ParseNext]_vars

(***************************************************************************)
(* Spec: main's loop.  The lines a run may read.                           *)
(***************************************************************************)
W_a == <<"a">>
W_f == <<"f">>
W_d == <<"d">>
W_gt == <<">">>

SingleLines ==
    {Join(ws) : ws \in
        {<<>>, <<W_a>>, <<<<"x">>>>, <<W_a, W_gt, W_f>>, <<W_a, <<"2", ">">>, W_f>>,
         <<L_echo, W_a>>, <<L_echo, W_a, W_gt, W_f>>, <<L_echo, W_a, <<">", ">">>, W_f>>,
         <<L_echo, W_a, <<"2", ">">>, W_f>>, <<L_echo, W_a, <<"3", ">">>, W_f>>,
         <<L_echo, <<SQ, "a">>>>, <<L_pwd>>, <<L_cd, W_d>>, <<L_cd, <<"x">>>>,
         <<L_cd, <<"~">>>>,
         <<L_exit, <<"3">>>>, <<W_a, <<"|">>>>}}

FirstStages == {<<W_a>>, <<L_echo, W_a>>, <<W_a, W_gt, W_f>>}

SecondStages == {<<W_a>>, <<<<"x">>>>, <<<<"t">>>>, <<L_pwd>>, <<W_a, W_gt, W_d>>}

Lines ==
    SingleLines \cup {Join(c1 \o <<<<"|">>>> \o c2) : c1 \in FirstStages, c2 \in SecondStages}

\* eval's command_text
command_text == history[Len(history)]

(***************************************************************************)
(* Processes and pipes.                                                    *)
(***************************************************************************)
\* what a descriptor of a child is: the shell's own stream, a pipe end, a file
Stdio_inherit == [kind |-> "inherit", pipe |-> 0, path |-> <<>>]
Stdio_pipe(p) == [kind |-> "pipe", pipe |-> p, path |-> <<>>]
Stdio_file(path) == [kind |-> "file", pipe |-> 0, path |-> path]

\* a child process: left is the number of bytes its program has yet to
\* write, eof whether it has read its input to the end, recv what it read
Process(prog, sin, sout, serr) ==
    [prog |-> prog, stdin |-> sin, stdout |-> sout, stderr |-> serr,
     status |-> "running", waited |-> FALSE, left |-> OutputLen(prog),
     eof |-> FALSE, recv |-> <<>>]

\* a pipe: its buffer and who holds its read and its write end
\* ("parent", "child" or "closed")
Pipe(rd, wr) == [buf |-> <<>>, rd |-> rd, wr |-> wr]

\* every pipe end the shell holds is closed (its handles are dropped)
ParentCloses(ps) ==
    [p \in DOMAIN ps |->
        [ps[p] EXCEPT !.rd = IF @ = "parent" THEN "closed" ELSE @,
                      !.wr = IF @ = "parent" THEN "closed" ELSE @]]

\* a read end the shell took into a Stdio and dropped without a spawn
DropTaken(ps, p) == IF p = 0 THEN ps ELSE [ps EXCEPT ![p].rd = "closed"]

\* the process ends: its pipe ends close
Terminate(pid) ==
    /\ procs' = [procs EXCEPT ![pid].status = "exited"]
    /\ pipes' = [p \in DOMAIN pipes |->
                   [pipes[p] EXCEPT
                      !.rd = IF procs[pid].stdin = Stdio_pipe(p) THEN "closed" ELSE @,
                      !.wr = IF procs[pid].stdout = Stdio_pipe(p) THEN "closed" ELSE @]]

(***************************************************************************)
(* main and eval.                                                          *)
(***************************************************************************)
\* what eprintln!("{}", e) prints for a parse error (the number of an
\* unrecognized descriptor is left out of the printed text)
ErrorText(m) == <<m.text>> \o m.lexeme

ClearEval ==
    /\ the_pipeline' = <<>>
    /\ stage_i' = 1
    /\ children' = <<>>
    /\ built_in_out' = NoBuf
    /\ spawned' = NoChild
    /\ pending' = <<>>
    /\ wait_i' = 1

\* eval returns to main's loop, with Ok or with the error main prints; the
\* locals of eval are dropped, and with them the pipe ends they hold
Return(ok, msg, ps) ==
    /\ pc' = "read"
    /\ shell_err' = IF ok THEN shell_err ELSE shell_err \o msg \o <<"\n">>
    /\ pipes' = ParentCloses(ps)
    /\ ClearEval

\* the process ends by a panic
PanicExit ==
    /\ pc' = "panicked"
    /\ shell_err' = shell_err \o <<"thread 'main' panicked", "\n">>
    /\ pipes' = ParentCloses(pipes)
    /\ ClearEval

\* the loop goes on to the next stage, or to the wait loop after the last
NextStage ==
    /\ stage_i' = stage_i + 1
    /\ pc' = IF stage_i = Len(the_pipeline) THEN "wait" ELSE "stage"

\* main: readline and history.push
ReadLine ==
    /\ pc = "read"
    /\ Len(history) < MaxLines
    /\ \E line \in Lines : history' = Append(history, line)
    /\ pc' = "eval"
    /\ UNCHANGED <<evalVars, exit_code, procs, pipes, files, cwd, shell_out, shell_err>>
    /\ UNCHANGED <<scanVars, home>>

\* eval from its entry to the first stage: parse(command_text)?
EvalParsed(r) ==
    IF r.st = "panic"
    THEN PanicExit /\ UNCHANGED <<history, exit_code, procs, files, cwd, shell_out>>
    ELSE IF r.st = "err"
    THEN /\ Return(FALSE, ErrorText(r.msg), pipes)
         /\ UNCHANGED <<history, exit_code, procs, files, cwd, shell_out>>
    ELSE IF r.val.cmds = <<>>
    THEN /\ Return(TRUE, <<>>, pipes)
         /\ UNCHANGED <<history, exit_code, procs, files, cwd, shell_out>>
    ELSE /\ pc' = "stage"
         /\ the_pipeline' = r.val.cmds
         /\ stage_i' = 1
         /\ children' = <<>>
         /\ built_in_out' = NoBuf
         /\ UNCHANGED <<spawned, pending, wait_i>>
         /\ UNCHANGED <<history, exit_code, procs, pipes, files, cwd, shell_out, shell_err>>

\* mutant: the redirection target is created and truncated while the line is
\* parsed, so also when the parse then fails
Eval_opens_while_parsing ==
    /\ pc = "eval"
    /\ LET r == parse(command_text)
       IN  IF r.st = "err"
           THEN /\ Return(FALSE, ErrorText(r.msg), pipes)
                /\ files' = open_file(files, cwd, W_f, FALSE).files
                /\ UNCHANGED <<history, exit_code, procs, cwd, shell_out>>
           ELSE EvalParsed(r)
    /\ UNCHANGED <<scanVars, home>>

Eval ==
    /\ pc = "eval"
    /\ EvalParsed(parse(command_text))
    /\ UNCHANGED <<scanVars, home>>

\* mutant: the buffer of a built-in stage before is not discarded but put
\* in front of the stage's own output
StageBuiltIn_keeps_pending ==
    /\ pc = "stage"
    /\ the_pipeline[stage_i].tag = "BuiltIn"
    /\ LET is_last == stage_i = Len(the_pipeline)
           r == eval_built_in_command(the_pipeline[stage_i], files, cwd)
           out == built_in_out.buf \o r.buf
       IN  /\ files' = r.files
           /\ cwd' = r.cwd
           /\ IF r.st = "exit"
              THEN /\ pc' = "exited"
                   /\ exit_code' = r.code
                   /\ pipes' = ParentCloses(pipes)
                   /\ UNCHANGED <<evalVars, shell_out, shell_err>>
              ELSE IF r.st = "err"
              THEN /\ Return(FALSE, r.msg, pipes)
                   /\ UNCHANGED <<exit_code, shell_out>>
              ELSE /\ shell_err' = shell_err \o r.console_err
                   /\ shell_out' = IF is_last THEN shell_out \o out ELSE shell_out
                   /\ built_in_out' = IF is_last THEN NoBuf ELSE SomeBuf(out)
                   /\ children' = Append(children, NoChild)
                   /\ NextStage
                   /\ UNCHANGED <<the_pipeline, spawned, pending, wait_i, pipes, exit_code>>
    /\ UNCHANGED <<history, procs>>
    /\ UNCHANGED <<scanVars, home>>

\* one turn of the loop over the pipeline, on a built-in
StageBuiltIn ==
    /\ pc = "stage"
    /\ the_pipeline[stage_i].tag = "BuiltIn"
    /\ LET is_last == stage_i = Len(the_pipeline)
           r == eval_built_in_command(the_pipeline[stage_i], files, cwd)
       IN  /\ files' = r.files
           /\ cwd' = r.cwd
           /\ IF r.st = "exit"
              THEN /\ pc' = "exited"
                   /\ exit_code' = r.code
                   /\ pipes' = ParentCloses(pipes)
                   /\ UNCHANGED <<evalVars, shell_out, shell_err>>
              ELSE IF r.st = "err"
              THEN /\ Return(FALSE, r.msg, pipes)
                   /\ UNCHANGED <<exit_code, shell_out>>
              ELSE /\ shell_err' = shell_err \o r.console_err
                   /\ shell_out' = IF is_last THEN shell_out \o r.buf ELSE shell_out
                   /\ built_in_out' = IF is_last THEN NoBuf ELSE SomeBuf(r.buf)
                   /\ children' = Append(children, NoChild)
                   /\ NextStage
                   /\ UNCHANGED <<the_pipeline, spawned, pending, wait_i, pipes, exit_code>>
    /\ UNCHANGED <<history, procs>>
    /\ UNCHANGED <<scanVars, home>>

\* Stdio::piped(): a pipe that is made when the command is spawned
Stdio_piped == [kind |-> "piped", pipe |-> 0, path |-> <<>>]

\* mutant: every stage but the first gets a pipe of its own as stdin
stage_stdin_fresh_pipe(is_first, prev) ==
    IF is_first THEN Stdio_inherit ELSE Stdio_piped

\* the stdin eval gives an external stage: the shell's own for the first
\* stage, the stdout taken from the Child before it, a new pipe otherwise
stage_stdin(is_first, prev) ==
    IF is_first THEN Stdio_inherit
    ELSE IF prev.some
    THEN IF prev.stdout # 0 THEN Stdio_pipe(prev.stdout) ELSE Stdio_piped
    ELSE Stdio_piped

\* the stdout eval gives an external stage
stage_stdout(is_last) == IF is_last THEN Stdio_inherit ELSE Stdio_piped

\* mutant: a redirection of stderr leaves stdout to the shell's own output
eval_external_command_stderr_resets_stdout(red, path, stdin, stdout) ==
    IF red.kind = "StdOut"
    THEN [stdin |-> stdin, stdout |-> Stdio_file(path), stderr |-> Stdio_inherit]
    ELSE IF red.kind = "StdErr"
    THEN [stdin |-> stdin, stdout |-> Stdio_inherit, stderr |-> Stdio_file(path)]
    ELSE [stdin |-> stdin, stdout |-> stdout, stderr |-> Stdio_inherit]

\* eval_external_command and eval_external: the three streams of the Command,
\* path being the file the redirection opened
eval_external_command(red, path, stdin, stdout) ==
    IF red.kind = "StdOut"
    THEN [stdin |-> stdin, stdout |-> Stdio_file(path), stderr |-> Stdio_inherit]
    ELSE IF red.kind = "StdErr"
    THEN [stdin |-> stdin, stdout |-> stdout, stderr |-> Stdio_file(path)]
    ELSE [stdin |-> stdin, stdout |-> stdout, stderr |-> Stdio_inherit]

\* spawn_command: the program is looked up on PATH
spawn_command(args) ==
    IF args[1] \in PathPrograms
    THEN [ok |-> TRUE, msg |-> <<>>]
    ELSE [ok |-> FALSE, msg |-> args[1] \o <<": command not found">>]

\* one turn of the loop over the pipeline, on an external command: the
\* stdin and stdout of the stage, eval_external_command, spawn_command, and
\* the hand-over of a built-in's buffer up to the call of write_all
StageExternal ==
    /\ pc = "stage"
    /\ the_pipeline[stage_i].tag = "External"
    /\ LET c == the_pipeline[stage_i]
           red == c.redirection
           is_first == stage_i = 1
           is_last == stage_i = Len(the_pipeline)
           prev == IF is_first THEN NoChild ELSE children[stage_i - 1]
           sin == stage_stdin(is_first, prev)
           \* last_child.stdout.take(): the read end of the previous pipe
           taken == IF sin.kind = "pipe" THEN sin.pipe ELSE 0
           children1 == IF taken # 0 THEN [children EXCEPT ![stage_i - 1].stdout = 0]
                        ELSE children
           o == IF red.kind = "None"
                THEN [ok |-> TRUE, path |-> <<>>, files |-> files, msg |-> <<>>]
                ELSE open_file(files, cwd, red.filename, red.is_append)
           cmd == eval_external_command(red, o.path, sin, stage_stdout(is_last))
           sp == spawn_command(c.args)
           \* Stdio::piped() as stdin: a new pipe the shell keeps the write end of
           new_in == cmd.stdin.kind = "piped"
           \* Stdio::piped() as stdout: a new pipe the shell keeps the read end of
           new_out == cmd.stdout.kind = "piped"
           pin == IF taken # 0 THEN taken ELSE IF new_in THEN Len(pipes) + 1 ELSE 0
           pout == IF ~new_out THEN 0 ELSE IF new_in THEN Len(pipes) + 2 ELSE Len(pipes) + 1
           pipes1 == (IF taken # 0 THEN [pipes EXCEPT ![taken].rd = "child"] ELSE pipes)
                     \o (IF new_in THEN <<Pipe("child", "parent")>> ELSE <<>>)
                     \o (IF new_out THEN <<Pipe("parent", "child")>> ELSE <<>>)
           proc == Process(c.args[1],
                           IF new_in THEN Stdio_pipe(pin) ELSE cmd.stdin,
                           IF new_out THEN Stdio_pipe(pout) ELSE cmd.stdout,
                           cmd.stderr)
           pid == Len(procs) + 1
           child == SomeChild(pid, IF new_in THEN pin ELSE 0, pout)
       IN  IF ~o.ok
           THEN /\ Return(FALSE, o.msg, DropTaken(pipes, taken))
                /\ UNCHANGED <<procs, files>>
           ELSE IF c.args = <<>>
           THEN PanicExit /\ files' = o.files /\ UNCHANGED procs
           ELSE IF ~sp.ok
           THEN /\ Return(FALSE, sp.msg, DropTaken(pipes, taken))
                /\ files' = o.files
                /\ UNCHANGED procs
           ELSE /\ procs' = Append(procs, proc)
                /\ files' = o.files
                /\ built_in_out' = NoBuf
                /\ IF built_in_out.some /\ child.stdin # 0 /\ built_in_out.buf # <<>>
                   THEN \* write_all has bytes to write
                        /\ pc' = "write"
                        /\ spawned' = child
                        /\ pending' = built_in_out.buf
                        /\ pipes' = pipes1
                        /\ children' = children1
                        /\ UNCHANGED stage_i
                   ELSE IF built_in_out.some /\ child.stdin # 0
                   THEN \* nothing to write: the taken stdin is dropped
                        /\ pipes' = [pipes1 EXCEPT ![child.stdin].wr = "closed"]
                        /\ children' = Append(children1, [child EXCEPT !.stdin = 0])
                        /\ NextStage
                        /\ UNCHANGED <<spawned, pending>>
                   ELSE /\ pipes' = pipes1
                        /\ children' = Append(children1, child)
                        /\ NextStage
                        /\ UNCHANGED <<spawned, pending>>
                /\ UNCHANGED <<the_pipeline, wait_i, shell_err>>
    /\ UNCHANGED <<history, exit_code, cwd, shell_out>>
    /\ UNCHANGED <<scanVars, home>>

Min(a, b) == IF a < b THEN a ELSE b

\* mutant: the buffer is written through a borrowed handle, the Child keeps
\* its stdin and the write end stays open after the write
WriteStdin_keeps_stdin ==
    /\ pc = "write"
    /\ LET p == spawned.stdin
           k == Min(PipeCap - Len(pipes[p].buf), Len(pending))
           rest == SubSeq(pending, k + 1, Len(pending))
       IN  IF pipes[p].rd = "closed"
           THEN /\ Return(FALSE, <<"Broken pipe (os error 32)">>, pipes)
           ELSE /\ k > 0
                /\ pending' = rest
                /\ pipes' = [pipes EXCEPT ![p].buf = @ \o SubSeq(pending, 1, k)]
                /\ IF rest = <<>>
                   THEN /\ children' = Append(children, spawned)
                        /\ spawned' = NoChild
                        /\ NextStage
                   ELSE UNCHANGED <<children, spawned, stage_i, pc>>
                /\ UNCHANGED <<the_pipeline, built_in_out, wait_i, shell_err>>
    /\ UNCHANGED <<history, exit_code, procs, files, cwd, shell_out>>
    /\ UNCHANGED <<scanVars, home>>

\* stdin.write_all(&buf)?, stdin.flush()? and the drop of stdin: a write
\* takes the room the pipe has and blocks when it has none; it fails when the
\* read end is closed
WriteStdin ==
    /\ pc = "write"
    /\ LET p == spawned.stdin
           k == Min(PipeCap - Len(pipes[p].buf), Len(pending))
           rest == SubSeq(pending, k + 1, Len(pending))
       IN  IF pipes[p].rd = "closed"
           THEN /\ Return(FALSE, <<"Broken pipe (os error 32)">>, pipes)
           ELSE /\ k > 0
                /\ pending' = rest
                /\ IF rest = <<>>
                   THEN /\ pipes' = [pipes EXCEPT ![p].buf = @ \o SubSeq(pending, 1, k),
                                                  ![p].wr = "closed"]
                        /\ children' = Append(children, [spawned EXCEPT !.stdin = 0])
                        /\ spawned' = NoChild
                        /\ NextStage
                   ELSE /\ pipes' = [pipes EXCEPT ![p].buf = @ \o SubSeq(pending, 1, k)]
                        /\ UNCHANGED <<children, spawned, stage_i, pc>>
                /\ UNCHANGED <<the_pipeline, built_in_out, wait_i, shell_err>>
    /\ UNCHANGED <<history, exit_code, procs, files, cwd, shell_out>>
    /\ UNCHANGED <<scanVars, home>>

\* the children the wait loop has yet to wait on
ToWait == {j \in wait_i..Len(children) : children[j].some}

\* child.wait()?: the Child's stdin is dropped, then the call blocks until
\* the process has exited
WaitChild ==
    /\ pc = "wait"
    /\ ToWait # {}
    /\ LET j == CHOOSE j \in ToWait : \A k \in ToWait : j <= k
           pid == children[j].pid
       IN  IF children[j].stdin # 0
           THEN /\ pipes' = [pipes EXCEPT ![children[j].stdin].wr = "closed"]
                /\ children' = [children EXCEPT ![j].stdin = 0]
                /\ wait_i' = j
                /\ UNCHANGED procs
           ELSE /\ procs[pid].status = "exited"
                /\ procs' = [procs EXCEPT ![pid].waited = TRUE]
                /\ wait_i' = j + 1
                /\ UNCHANGED <<pipes, children>>
    /\ UNCHANGED <<pc, the_pipeline, stage_i, built_in_out, spawned, pending>>
    /\ UNCHANGED <<history, exit_code, files, cwd, shell_out, shell_err>>
    /\ UNCHANGED <<scanVars, home>>

\* the wait loop is over: Ok(())
EvalDone ==
    /\ pc = "wait"
    /\ ToWait = {}
    /\ Return(TRUE, <<>>, pipes)
    /\ UNCHANGED <<history, exit_code, procs, files, cwd, shell_out>>
    /\ UNCHANGED <<scanVars, home>>

(***************************************************************************)
(* The external programs, as the operating system runs them.               *)
(***************************************************************************)
\* the program reads from its standard input: a byte, or the end of input
\* (the shell's own input is taken to be at its end)
ChildRead(pid) ==
    /\ procs[pid].status = "running"
    /\ ReadsStdin(procs[pid].prog)
    /\ ~procs[pid].eof
    /\ LET p == procs[pid].stdin.pipe
       IN  IF procs[pid].stdin.kind = "inherit"
           THEN procs' = [procs EXCEPT ![pid].eof = TRUE] /\ UNCHANGED pipes
           ELSE IF pipes[p].buf # <<>>
           THEN /\ procs' = [procs EXCEPT ![pid].recv = Append(@, Head(pipes[p].buf))]
                /\ pipes' = [pipes EXCEPT ![p].buf = Tail(@)]
           ELSE /\ pipes[p].wr = "closed"
                /\ procs' = [procs EXCEPT ![pid].eof = TRUE]
                /\ UNCHANGED pipes
    /\ UNCHANGED <<pc, history, evalVars, exit_code, files, cwd, shell_out, shell_err>>
    /\ UNCHANGED <<scanVars, home>>

\* the program writes one byte to its standard output; a write to a pipe
\* without reader kills it (SIGPIPE), a write to a full pipe blocks
ChildWrite(pid) ==
    /\ procs[pid].status = "running"
    /\ procs[pid].left > 0
    /\ LET so == procs[pid].stdout
       IN  IF so.kind = "inherit"
           THEN /\ shell_out' = Append(shell_out, "o")
                /\ procs' = [procs EXCEPT ![pid].left = @ - 1]
                /\ UNCHANGED <<pipes, files>>
           ELSE IF so.kind = "file"
           THEN /\ files' = write_file(files, so.path, <<"o">>)
                /\ procs' = [procs EXCEPT ![pid].left = @ - 1]
                /\ UNCHANGED <<pipes, shell_out>>
           ELSE IF pipes[so.pipe].rd = "closed"
           THEN Terminate(pid) /\ UNCHANGED <<files, shell_out>>
           ELSE /\ Len(pipes[so.pipe].buf) < PipeCap
                /\ pipes' = [pipes EXCEPT ![so.pipe].buf = Append(@, "o")]
                /\ procs' = [procs EXCEPT ![pid].left = @ - 1]
                /\ UNCHANGED <<files, shell_out>>
    /\ UNCHANGED <<pc, history, evalVars, exit_code, cwd, shell_err>>
    /\ UNCHANGED <<scanVars, home>>

\* the program has written all it writes and, if it reads, has read its
\* input to the end: it exits
ChildExit(pid) ==
    /\ procs[pid].status = "running"
    /\ procs[pid].left = 0
    /\ ReadsStdin(procs[pid].prog) => procs[pid].eof
    /\ Terminate(pid)
    /\ UNCHANGED <<pc, history, evalVars, exit_code, files, cwd, shell_out, shell_err>>
    /\ UNCHANGED <<scanVars, home>>

ShellStep ==
    \/ ReadLine
    \/ Eval
    \/ StageBuiltIn
    \/ StageExternal
    \/ WriteStdin
    \/ WaitChild
    \/ EvalDone

ChildStep == \E pid \in DOMAIN procs : ChildRead(pid) \/ ChildWrite(pid) \/ ChildExit(pid)

Init ==
    /\ ShellStart
    /\ home \in Homes
    /\ text = <<>>
    /\ scanner = Scanner_new(<<>>)
    /\ wstate = "Idle"
    /\ lexeme = <<>>
    /\ tokens = <<>>
    /\ scan_err = ""
    /\ parsed = Unset

Next == ShellStep \/ ChildStep

Spec == Init /\ [][Next]_vars

(***************************************************************************)
(* EvalSpec: one call of eval, from the state main is in when it has read  *)
(* its first line, up to the return of eval or the end of the process; the *)
(* child processes run on after it.  The line is drawn from EvalLines, the *)
(* file f exists beforehand or not.                                        *)
(***************************************************************************)
W_x == <<"x">>
W_t == <<"t">>
W_bar == <<"|">>
W_2gt == <<"2", ">">>
W_gtgt == <<">", ">">>
W_2gtgt == <<"2", ">", ">">>

\* lines with exit: alone, with a status, with a word, redirected, in a pipeline
ExitLines ==
    {Join(ws) : ws \in
        {<<L_exit>>, <<L_exit, <<"3">>>>, <<L_exit, <<"6", "5", "5", "3", "6">>>>,
         <<L_exit, W_a>>, <<L_exit, <<"3">>, W_gt, W_f>>, <<L_exit, W_gt, W_d>>,
         <<W_a, W_bar, L_exit, <<"1">>>>, <<L_exit, <<"1">>, W_bar, W_a>>}}

\* arguments of echo: a word, a number, a quoted word with a space, ''
EchoWords == {W_a, <<"1">>, <<SQ, "a", " ", "a", SQ>>, <<SQ, SQ>>}

EchoLines == {Join(<<L_echo>> \o ws) : ws \in SeqsUpTo(EchoWords, MaxWords)}

\* the redirection clauses of a stage: none, or one to the file f
Redirects == {<<>>, <<W_gt, W_f>>, <<W_gtgt, W_f>>, <<W_2gt, W_f>>, <<W_2gtgt, W_f>>}

\* stages: the programs a and t, and built-ins that write to standard
\* output (echo, pwd), to standard error (cd x) or to neither (cd d)
RedirectedStages == {<<W_a>>, <<L_echo, W_a>>, <<L_cd, W_x>>}

PlainStages == {<<W_a>>, <<W_t>>, <<L_echo, W_a>>, <<L_pwd>>, <<L_cd, W_d>>, <<L_cd, W_x>>}

StageLines ==
    {Join(c \o r) : c \in RedirectedStages, r \in Redirects}
    \cup {Join(c1 \o r \o <<W_bar>> \o c2) : c1 \in RedirectedStages, r \in Redirects,
                                            c2 \in {<<W_a>>}}
    \cup {Join(c1 \o <<W_bar>> \o c2 \o r) : c1 \in {<<W_a>>, <<L_echo, W_a>>},
                                            c2 \in {<<W_a>>}, r \in Redirects}
    \cup {Join(c1 \o <<W_bar>> \o c2) : c1 \in PlainStages, c2 \in PlainStages}

EvalLines == Lines \cup ExitLines \cup EchoLines \cup StageLines

\* the files before the shell starts: none, or f with some content
FilesBefore ==
    {[p \in FilePaths |-> NoFile],
     [p \in FilePaths |-> IF p = <<"/", "f">>
                          THEN [exists |-> TRUE, data |-> <<"x">>] ELSE NoFile]}

EvalInit ==
    /\ pc = "eval"
    /\ history \in {<<line>> : line \in EvalLines}
    /\ the_pipeline = <<>>
    /\ stage_i = 1
    /\ children = <<>>
    /\ built_in_out = NoBuf
    /\ spawned = NoChild
    /\ pending = <<>>
    /\ wait_i = 1
    /\ exit_code = U32(0)
    /\ procs = <<>>
    /\ pipes = <<>>
    /\ files \in FilesBefore
    /\ home \in Homes
    /\ cwd = <<"/">>
    /\ shell_out = <<>>
    /\ shell_err = <<>>
    /\ text = <<>>
    /\ scanner = Scanner_new(<<>>)
    /\ wstate = "Idle"
    /\ lexeme = <<>>
    /\ tokens = <<>>
    /\ scan_err = ""
    /\ parsed = Unset

EvalNext ==
    \/ Eval
    \/ StageBuiltIn
    \/ StageExternal
    \/ WriteStdin
    \/ WaitChild
    \/ EvalDone
    \/ ChildStep

EvalSpec == EvalInit /\ [][EvalNext]_vars

(***************************************************************************)
(* HistorySpec: eval at the stage of a history built-in, on a history of   *)
(* up to MaxHistory lines and with every limit up to one more than that.   *)
(***************************************************************************)
HistoryEntries == {W_a, L_pwd}

Histories == SeqsUpTo(HistoryEntries, MaxHistory) \ {<<>>}

\* Option<usize>
NoLimit == [some |-> FALSE, val |-> 0]
SomeLimit(n) == [some |-> TRUE, val |-> n]

Limits == {NoLimit} \cup {SomeLimit(n) : n \in 0..(MaxHistory + 1)}

HistoryInit ==
    /\ pc = "stage"
    /\ history \in Histories
    /\ the_pipeline \in
           {<<Command_BuiltIn(BuiltIn_History(l), Redirection_None)>> : l \in Limits}
    /\ stage_i = 1
    /\ children = <<>>
    /\ built_in_out = NoBuf
    /\ spawned = NoChild
    /\ pending = <<>>
    /\ wait_i = 1
    /\ exit_code = U32(0)
    /\ procs = <<>>
    /\ pipes = <<>>
    /\ files = [p \in FilePaths |-> NoFile]
    /\ home = [some |-> TRUE, path |-> <<"/">>]
    /\ cwd = <<"/">>
    /\ shell_out = <<>>
    /\ shell_err = <<>>
    /\ text = <<>>
    /\ scanner = Scanner_new(<<>>)
    /\ wstate = "Idle"
    /\ lexeme = <<>>
    /\ tokens = <<>>
    /\ scan_err = ""
    /\ parsed = Unset

HistoryNext == StageBuiltIn \/ EvalDone

HistorySpec == HistoryInit /\ [][HistoryNext]_vars

(***************************************************************************)
(* Claims about the scanner (ScanSpec).                                    *)
(***************************************************************************)
\* the text holds no quote and no backslash: every character is unquoted
PlainText == \A i \in DOMAIN text : text[i] \notin {SQ, DQ, BS}

TokensTagged(tag) == {i \in DOMAIN tokens : tokens[i].tag = tag}

\* C6: every unquoted, unescaped `|` of the input is scanned as a Pipe
\* token: a text without quotes and backslashes that scans to the end has
\* as many Pipe tokens as it has `|` characters.
C6_EveryPipeIsToken ==
    (ScanFinished /\ scan_err = "" /\ PlainText)
        => Cardinality(TokensTagged("Pipe"))
               = Cardinality({i \in DOMAIN text : text[i] = "|"})

\* C9: inside single quotes every character but `'` is appended unchanged
\* and the state stays InSingleQuote; `'` returns to Normal and is not
\* appended; the end of the input is the error "unclosed single quote" and
\* yields no token.
C9_SingleQuoteLiteral ==
    [][wstate = "InSingleQuote" =>
          IF scanner.current = None
          THEN scan_err' = "unclosed single quote" /\ tokens' = tokens
          ELSE IF scanner.current = SQ
          THEN wstate' = "Normal" /\ lexeme' = lexeme /\ scan_err' = ""
          ELSE /\ wstate' = "InSingleQuote"
               /\ lexeme' = Append(lexeme, scanner.current)
               /\ scan_err' = ""]_vars

\* C9 witness: '\ ' has been scanned to the one Word `\ `.
C9_Witness ==
    /\ text = <<SQ, BS, " ", SQ>>
    /\ ScanFinished
    /\ tokens[1] = Token_new("Word", U32(0), <<BS, " ">>)

\* C10: inside double quotes `"` returns to Normal, a backslash enters
\* QuotedBackSpace, every other character (`'` and whitespace included) is
\* appended; after the backslash, `"` and `\` are appended alone and any
\* other character together with the backslash, back in InDoubleQuote; the
\* end of the input in either state is the error "unclosed double quote".
C10_DoubleQuote ==
    [][/\ wstate = "InDoubleQuote" =>
             IF scanner.current = None
             THEN scan_err' = "unclosed double quote" /\ tokens' = tokens
             ELSE IF scanner.current = DQ
             THEN wstate' = "Normal" /\ lexeme' = lexeme /\ scan_err' = ""
             ELSE IF scanner.current = BS
             THEN wstate' = "QuotedBackSpace" /\ lexeme' = lexeme /\ scan_err' = ""
             ELSE /\ wstate' = "InDoubleQuote"
                  /\ lexeme' = Append(lexeme, scanner.current)
                  /\ scan_err' = ""
       /\ wstate = "QuotedBackSpace" =>
             IF scanner.current = None
             THEN scan_err' = "unclosed double quote" /\ tokens' = tokens
             ELSE /\ wstate' = "InDoubleQuote"
                  /\ scan_err' = ""
                  /\ lexeme' = IF scanner.current \in {DQ, BS}
                               THEN Append(lexeme, scanner.current)
                               ELSE lexeme \o <<BS, scanner.current>>]_vars

\* C10 witness: "\a" has been scanned to the one Word `\a`.
C10_Witness ==
    /\ text = <<DQ, BS, "a", DQ>>
    /\ ScanFinished
    /\ tokens[1] = Token_new("Word", U32(0), <<BS, "a">>)

(***************************************************************************)
(* Claims about the parser (ParseSpec).                                    *)
(***************************************************************************)
ParsedPipeline == parsed.st = "ok" /\ parsed.val.some

\* C2: parse returns a pipeline only with the end-of-input token current.
C2_EndOfCommandRequired ==
    ParsedPipeline => parsed.ps.current.tag = "EndOfCommand"

BuiltInNames == {L_cd, L_echo, L_exit, L_pwd, L_type, L_history}

\* C7: the first command is a built-in exactly when the first Word is one
\* of cd, echo, exit, pwd, type, history; otherwise it is External with
\* that word as args[0].
C7_BuiltInDispatch ==
    ParsedPipeline =>
        LET first == parsed.val.cmds[1]
        IN  /\ first.tag = "BuiltIn" <=> tokens[1].lexeme \in BuiltInNames
            /\ first.tag = "External" => first.args[1] = tokens[1].lexeme

RECURSIVE ArgsEnd(_, _)
\* the index of the first token at or after i that is no Word and no Integer
ArgsEnd(toks, i) ==
    IF toks[i].tag \in {"Word", "Integer"} THEN ArgsEnd(toks, i + 1) ELSE i

\* the index of the token after the first command's name and arguments
OperatorIndex(toks) ==
    LET name == toks[1].lexeme
    IN  IF name \in {L_cd, L_type} THEN 3
        ELSE IF name = L_exit THEN (IF toks[2].tag = "Integer" THEN 3 ELSE 2)
        ELSE IF name = L_pwd THEN 2
        ELSE ArgsEnd(toks, 2)

\* the redirection an operator token stands for
OperatorMeaning(op) ==
    IF op.tag = "RedirectOut" THEN [kind |-> "StdOut", is_append |-> FALSE]
    ELSE IF op.tag = "RedirectOutAppend" THEN [kind |-> "StdOut", is_append |-> TRUE]
    ELSE IF op.tag \in {"RedirectOutWithFileDescriptor",
                        "RedirectOutAppendWithFileDescriptor"}
    THEN [kind |-> IF op.val = U32(1) THEN "StdOut"
                   ELSE IF op.val = U32(2) THEN "StdErr" ELSE "Unrecognized",
          is_append |-> op.tag = "RedirectOutAppendWithFileDescriptor"]
    ELSE [kind |-> "None", is_append |-> FALSE]

\* C8: the first command's redirection is decided by the token after its
\* arguments: > 1> >> 1>> 2> 2>> select stream and mode and need a Word as
\* filename (else a parse error); N> and N>> with another N are the error
\* "unrecognized file descriptor N"; any other token gives no redirection.
C8_RedirectionByOperator ==
    (/\ parsed # Unset
     /\ scan_err = ""
     /\ tokens[1].tag = "Word"
     /\ tokens[1].lexeme \in {L_cd, L_type} => tokens[2].tag = "Word")
    => LET k == OperatorIndex(tokens)
           op == tokens[k]
           m == OperatorMeaning(op)
       IN  IF m.kind = "Unrecognized"
           THEN /\ parsed.st = "err"
                /\ parsed.msg = ErrMsg("unrecognized file descriptor", <<>>, op.val)
           ELSE IF m.kind = "None"
           THEN parsed.st = "ok" => parsed.val.cmds[1].redirection = Redirection_None
           ELSE IF tokens[k + 1].tag # "Word"
           THEN parsed.st = "err" /\ parsed.msg.text = "expected but found"
           ELSE /\ parsed.st = "ok" =>
                     parsed.val.cmds[1].redirection =
                         [kind |-> m.kind, filename |-> tokens[k + 1].lexeme,
                          is_append |-> m.is_append]
                /\ tokens[k + 2].tag = "EndOfCommand" => parsed.st = "ok"

\* C8 witness: `echo a 1 2>> a` has been parsed to an echo whose standard
\* error is appended to the file a.
C8_Witness ==
    /\ text = Join(<<L_echo, <<"a">>, <<"1">>, <<"2", ">", ">">>, <<"a">>>>)
    /\ ParsedPipeline
    /\ parsed.val.cmds[1].redirection = Redirection_StdErr(<<"a">>, TRUE)

(***************************************************************************)
(* Claims about main and eval (Spec).                                       *)
(***************************************************************************)
\* C1: parse never panics, so that no line ends the process but an executed
\* exit: the shell never stops on the failed assertion of command().
C1_OnlyExitEndsTheProcess == pc # "panicked"

\* C3: whenever eval has returned to main's loop, with Ok or with an error,
\* every child process spawned so far has been waited on.
C3_ChildrenWaitedOnReturn ==
    pc = "read" => \A pid \in DOMAIN procs : procs[pid].waited

\* C4: every call of eval comes to its end: while eval runs the stages of a
\* pipeline, writes into a child's stdin or waits, the shell or one of the
\* child processes can always take a step (no state is reached where the
\* shell waits on a child that waits on the shell).
C4_EvalNeverStuck ==
    pc \in {"stage", "write", "wait"} =>
        ENABLED (StageBuiltIn \/ StageExternal \/ WriteStdin \/ WaitChild
                 \/ EvalDone \/ ChildStep)

\* the line under evaluation fails to scan or to parse
LineFails == parse(command_text).st = "err"

\* C5: a line that fails to scan or parse has no evaluation effect: the
\* step by which eval leaves the parse of such a line returns to main's loop
\* and changes no file, no working directory, spawns no process, opens no
\* pipe and writes nothing but the error message, to standard error; and a
\* stage of a pipeline only runs once the parse of the whole line has
\* succeeded.
C5_FailedLineHasNoEffect ==
    [][/\ (pc = "eval" /\ pc' # "eval" /\ LineFails) =>
             /\ pc' = "read"
             /\ files' = files
             /\ cwd' = cwd
             /\ procs' = procs
             /\ pipes' = pipes
             /\ shell_out' = shell_out
             /\ shell_err' = shell_err \o ErrorText(parse(command_text).msg)
                                        \o <<"\n">>
       /\ pc \in {"stage", "write", "wait"} => parse(command_text).st = "ok"]_vars

\* C5 witness: `echo a 3> f` and `echo 'a` have both been read and have
\* failed; the file f does not exist and nothing was written to standard
\* output.
C5_Witness ==
    /\ pc = "read"
    /\ history = <<Join(<<L_echo, W_a, <<"3", ">">>, W_f>>), Join(<<L_echo, <<SQ, "a">>>>)>>
    /\ files[<<"/", "f">>] = NoFile
    /\ shell_out = <<>>
    /\ shell_err = <<"unrecognized file descriptor", "\n", "unclosed single quote", "\n">>

(***************************************************************************)
(* Further claims about the scanner (ScanSpec).                            *)
(***************************************************************************)
\* C11: outside quotes a backslash is dropped and the character after it,
\* whatever it is, is appended literally, back in Normal, without ending the
\* word or opening a quote; unescaped whitespace ends the word; the end of
\* the input directly after the backslash is the scan error "dangling
\* backslash" and yields no token.
C11_BackslashEscape ==
    [][/\ (wstate = "Normal" /\ scanner.current = BS) =>
             wstate' = "BackSpace" /\ lexeme' = lexeme /\ scan_err' = ""
       /\ (wstate = "Normal" /\ scanner.current # None
                             /\ is_whitespace(scanner.current)) =>
             /\ wstate' = "Idle"
             /\ tokens' = Append(tokens, Token_new("Word", U32(0), lexeme))
       /\ wstate = "BackSpace" =>
             IF scanner.current = None
             THEN scan_err' = "dangling backslash" /\ tokens' = tokens
             ELSE /\ wstate' = "Normal"
                  /\ lexeme' = Append(lexeme, scanner.current)
                  /\ scan_err' = ""]_vars

\* C15: once next_token has returned the end-of-input token, every later
\* call returns the end-of-input token again, with the empty lexeme, and
\* never an error or another token; the scanner does not move.
C15_EndOfInputForever ==
    [][(tokens # <<>> /\ tokens[Len(tokens)].tag = "EndOfCommand") =>
          /\ scan_err' = ""
          /\ scanner' = scanner
          /\ \/ tokens' = tokens
             \/ tokens' = Append(tokens, Token_new("EndOfCommand", U32(0), <<>>))]_vars

\* C15 witness: on the text `a ` next_token has returned the Word and then
\* the end-of-input token three times.
C15_Witness ==
    /\ text = <<"a", " ">>
    /\ scan_err = ""
    /\ Len(tokens) = 4
    /\ \A i \in 2..4 : tokens[i] = Token_new("EndOfCommand", U32(0), <<>>)

(***************************************************************************)
(* Further claims about the parser (ParseSpec).                            *)
(***************************************************************************)
\* C13: cd and type require one following Word: when the token after the
\* command name is not a Word (the end of the input, an Integer, a pipe, a
\* redirection operator) parse returns the error of expect_lexeme and
\* builds no command; when it is a Word, a successful parse has built the
\* built-in with that word.
C13_CdTypeRequireWord ==
    (/\ parsed # Unset
     /\ Len(tokens) >= 2
     /\ tokens[1].tag = "Word"
     /\ tokens[1].lexeme \in {L_cd, L_type})
    => IF tokens[2].tag # "Word"
       THEN /\ parsed.st = "err"
            /\ parsed.msg = ErrMsg("expected but found", tokens[2].lexeme, U32(0))
            /\ parsed.val = <<>>
       ELSE parsed.st = "ok" =>
                parsed.val.cmds[1].built_in =
                    (IF tokens[1].lexeme = L_cd THEN BuiltIn_Cd(tokens[2].lexeme)
                     ELSE BuiltIn_Type(tokens[2].lexeme))

\* C13 witness: `cd 1` and nothing else has been parsed, to the error that
\* a Word was expected and `1` found.
C13_Witness ==
    /\ text = Join(<<L_cd, <<"1">>>>)
    /\ parsed.st = "err"
    /\ parsed.msg = ErrMsg("expected but found", <<"1">>, U32(0))

\* C14: for every text of whitespace characters only (space, tab, CR, LF),
\* the empty text included, parse returns Ok(None): no pipeline, no error.
C14_WhitespaceIsEmpty ==
    (parsed # Unset /\ \A i \in DOMAIN text : text[i] \in WhitespaceChars)
    => /\ parsed.st = "ok"
       /\ ~parsed.val.some
       /\ parsed.val.cmds = <<>>

\* C14 witness: the text of a space, a tab, a CR and a LF has been parsed
\* to no pipeline.
C14_Witness ==
    /\ text = <<" ", "\t", "\r", "\n">>
    /\ parsed.st = "ok"
    /\ ~parsed.val.some

(***************************************************************************)
(* Claims about one call of eval (EvalSpec).                               *)
(***************************************************************************)
\* the tokens of the line under evaluation
LineTokens == ScanAll(Scanner_new(command_text), <<>>).tokens

\* the step is one of the shell's own, out of the loop over the stages
StageTaken == pc = "stage" /\ <<pc, stage_i>>' # <<pc, stage_i>>

\* the file of the stage's redirection can be opened, if it has one
StageOpens ==
    LET red == the_pipeline[stage_i].redirection
    IN  red.kind # "None" => open_file(files, cwd, red.filename, red.is_append).ok

\* C12: `exit` followed by an Integer token N is parsed to Exit(N) and
\* `exit` followed by anything else to Exit(0) (with the line at its end
\* after it, the parse succeeds); a stage that evaluates Exit(code) ends
\* the process with exactly that code, and nothing of the shell happens
\* after it.
C12_ExitStatus ==
    [][/\ (pc = "eval" /\ pc' # "eval" /\ LineTokens[1].lexeme = L_exit
                       /\ LineTokens[1].tag = "Word") =>
             LET given == LineTokens[2].tag = "Integer"
                 after == LineTokens[IF given THEN 3 ELSE 2]
             IN  /\ after.tag = "EndOfCommand" => pc' = "stage"
                 /\ pc' = "stage" =>
                        /\ the_pipeline'[1].tag = "BuiltIn"
                        /\ the_pipeline'[1].built_in.kind = "Exit"
                        /\ the_pipeline'[1].built_in.code =
                               (IF given THEN LineTokens[2].val ELSE U32(0))
       /\ (StageTaken /\ the_pipeline[stage_i].built_in.kind = "Exit" /\ StageOpens) =>
             /\ pc' = "exited"
             /\ exit_code' = the_pipeline[stage_i].built_in.code
       /\ pc = "exited" =>
             /\ pc' = "exited"
             /\ exit_code' = exit_code
             /\ UNCHANGED <<evalVars, history, cwd, shell_err>>]_vars

\* C12 witness: `exit 65536` has ended the process with status 65536.
C12_Witness ==
    /\ command_text = Join(<<L_exit, <<"6", "5", "5", "3", "6">>>>)
    /\ pc = "exited"
    /\ exit_code = [hi |-> 1, lo |-> 0]

\* the stage the loop of eval is at
Stage == the_pipeline[stage_i]

IsLast == stage_i = Len(the_pipeline)

\* the file a redirection of the stage names
StagePath == Resolve(cwd, Stage.redirection.filename)

\* what the file holds once it is opened by the redirection
StageFileBase == IF Stage.redirection.is_append THEN files[StagePath].data ELSE <<>>

\* C16: Echo(args) writes to its standard output sink (the console for a
\* last stage, the buffer handed to the next stage otherwise, the file of a
\* stdout redirection) the arguments in order, separated by exactly one
\* space each, followed by exactly one newline; for no arguments just the
\* newline.
C16_EchoWrites ==
    [][(StageTaken /\ Stage.tag = "BuiltIn" /\ Stage.built_in.kind = "Echo") =>
          LET line == Join(Stage.built_in.args) \o <<"\n">>
          IN  IF Stage.redirection.kind = "StdOut"
              THEN files'[StagePath].data = StageFileBase \o line
              ELSE IF IsLast
              THEN shell_out' = shell_out \o line
              ELSE built_in_out' = SomeBuf(line)]_vars

\* C16 witness: `echo 'a a'  1` has written `a a`, a space, nothing, a
\* space, `1` and a newline to the console.
C16_Witness ==
    /\ command_text = Join(<<L_echo, <<SQ, "a", " ", "a", SQ>>, <<SQ, SQ>>, <<"1">>>>)
    /\ pc = "read"
    /\ shell_out = <<"a", " ", "a", " ", " ", "1", "\n">>

\* the external stages that follow a built-in stage
AfterBuiltIn ==
    {j \in 2..Len(the_pipeline) :
        the_pipeline[j - 1].tag = "BuiltIn" /\ the_pipeline[j].tag = "External"}

\* the buffer eval_built_in_command returns for a built-in stage: what the
\* built-in wrote to its standard output, nothing under a stdout redirection
Captured(c) ==
    IF c.redirection.kind = "StdOut" THEN <<>>
    ELSE IF c.built_in.kind = "Echo" THEN Join(c.built_in.args) \o <<"\n">>
    ELSE IF c.built_in.kind = "Pwd" THEN cwd \o <<"\n">>
    ELSE <<>>

\* what has been written into a pipe so far: what the reader took and what
\* the pipe still holds
Delivered(pid) == procs[pid].recv \o pipes[procs[pid].stdin.pipe].buf

\* C17: when eval is in its wait loop, an external stage that follows a
\* built-in stage has a pipe as its standard input, the bytes written into
\* that pipe are exactly the buffer captured from the built-in, and the write
\* end of the pipe is closed.
C17_BufferHandedOverBeforeWait ==
    pc = "wait" =>
        \A j \in AfterBuiltIn :
            /\ children[j].some
            /\ procs[children[j].pid].stdin.kind = "pipe"
            /\ pipes[procs[children[j].pid].stdin.pipe].wr = "closed"
            /\ the_pipeline[j - 1].built_in.kind \in {"Echo", "Pwd", "Cd"}
            /\ Delivered(children[j].pid) = Captured(the_pipeline[j - 1])

\* C17 witness: in `echo a | a` eval waits on a, which has read `a`, a
\* newline and then the end of its input.
C17_Witness ==
    /\ command_text = Join(<<L_echo, W_a, W_bar, W_a>>)
    /\ pc = "wait"
    /\ procs[1].recv = <<"a", "\n">>
    /\ procs[1].eof

\* the step of eval that spawns the process of the stage it is at
Spawns == pc = "stage" /\ Len(procs') = Len(procs) + 1

\* the process the step spawns
NewProc == procs'[Len(procs')]

\* the process of the stage before the one eval is at
PrevProc == procs[children[stage_i - 1].pid]

\* the stage follows an external stage
AfterExternal == stage_i > 1 /\ the_pipeline[stage_i - 1].tag = "External"

\* the spawned process is that of the stage the loop is at, the stages
\* before it, and no others, have been started, and the first stage reads
\* the shell's own input
StartedInOrder ==
    /\ Stage.tag = "External"
    /\ NewProc.prog = Stage.args[1]
    /\ Len(children) = stage_i - 1
    /\ \A j \in 1..(stage_i - 1) :
           the_pipeline[j].tag = "External" =>
               children[j].some /\ children[j].pid <= Len(procs)
    /\ stage_i = 1 => NewProc.stdin = Stdio_inherit

\* the spawned process reads the pipe the process before it writes
ReadsPrevStdout ==
    /\ PrevProc.stdout.kind = "pipe"
    /\ NewProc.stdin = PrevProc.stdout
    /\ pipes'[NewProc.stdin.pipe].rd = "child"

\* C18 as stated: stages are started left to right, the first stage's stdin
\* is the shell's own input, and every external stage that follows an
\* external stage is spawned with the read end of the pipe that is the
\* preceding stage's stdout as its stdin.
C18_AsStated ==
    [][Spawns => StartedInOrder /\ (AfterExternal => ReadsPrevStdout)]_vars

\* C18 amended: stages are started left to right, the first stage's stdin is
\* the shell's own input, and an external stage that follows an external
\* stage whose stdout is not redirected to a file is spawned with the read
\* end of the pipe that is the preceding stage's stdout as its stdin; after a
\* stage whose stdout is redirected to a file its stdin is a new pipe that no
\* process writes.
C18_StagesWiredInOrder ==
    [][Spawns =>
          /\ StartedInOrder
          /\ AfterExternal =>
                 IF the_pipeline[stage_i - 1].redirection.kind = "StdOut"
                 THEN /\ PrevProc.stdout.kind = "file"
                      /\ NewProc.stdin.kind = "pipe"
                      /\ NewProc.stdin.pipe \notin DOMAIN pipes
                      /\ pipes'[NewProc.stdin.pipe].wr = "parent"
                 ELSE ReadsPrevStdout]_vars

\* C18 witness: in `a | a` both programs run and the second reads the pipe
\* the first writes.
C18_Witness ==
    /\ command_text = Join(<<W_a, W_bar, W_a>>)
    /\ Len(procs) = 2
    /\ procs[1].stdin = Stdio_inherit
    /\ procs[1].stdout.kind = "pipe"
    /\ procs[2].stdin = procs[1].stdout
    /\ pipes[procs[2].stdin.pipe].rd = "child"

\* the stdin of the spawned process is what the position of its stage gives
StdinByPosition ==
    IF stage_i = 1 THEN NewProc.stdin = Stdio_inherit
    ELSE /\ NewProc.stdin.kind = "pipe"
         /\ pipes'[NewProc.stdin.pipe].rd = "child"
         /\ (AfterExternal /\ PrevProc.stdout.kind = "pipe") =>
                NewProc.stdin = PrevProc.stdout

\* the stdout of the spawned process is what the position of its stage
\* gives: the shell's output for the last stage, else a new pipe the shell
\* holds the read end of
StdoutByPosition ==
    IF IsLast THEN NewProc.stdout = Stdio_inherit
    ELSE /\ NewProc.stdout.kind = "pipe"
         /\ NewProc.stdout.pipe \notin DOMAIN pipes
         /\ pipes'[NewProc.stdout.pipe].rd = "parent"
         /\ pipes'[NewProc.stdout.pipe].wr = "child"

\* the file the redirection names has been opened: created, and emptied
\* unless it is appended to
FileOpened ==
    /\ files'[StagePath].exists
    /\ files'[StagePath].data = StageFileBase

\* C19: an external stage with a file redirection is spawned with the opened
\* file as the stream the redirection names, whatever the position of the
\* stage, and with its other streams as they are without the redirection:
\* under a stderr redirection stdout is the pipe to the next stage or, for
\* the last stage, the shell's output; under a stdout redirection stderr is
\* the shell's; stdin is given by the position in both cases.
C19_ExternalRedirection ==
    [][(Spawns /\ Stage.redirection.kind # "None") =>
          /\ FileOpened
          /\ StdinByPosition
          /\ IF Stage.redirection.kind = "StdOut"
             THEN /\ NewProc.stdout = Stdio_file(StagePath)
                  /\ NewProc.stderr = Stdio_inherit
             ELSE /\ NewProc.stderr = Stdio_file(StagePath)
                  /\ StdoutByPosition]_vars

\* C19 witness: in `a 2> f | a` the first program runs with the file as
\* stderr and the pipe to the second as stdout, the second reads that pipe.
C19_Witness ==
    /\ command_text = Join(<<W_a, W_2gt, W_f, W_bar, W_a>>)
    /\ Len(procs) = 2
    /\ procs[1].stdin = Stdio_inherit
    /\ procs[1].stderr = Stdio_file(<<"/", "f">>)
    /\ procs[1].stdout.kind = "pipe"
    /\ procs[2].stdin = procs[1].stdout
    /\ files[<<"/", "f">>].exists

\* what the built-in of the stage writes to the two sinks it is run with
Written == eval_built_in(Stage.built_in, cwd)

\* the step of eval that runs the built-in of the stage to its end
BuiltInRuns ==
    /\ StageTaken
    /\ Stage.tag = "BuiltIn"
    /\ pc' \in {"stage", "wait"}

\* the standard output of the built-in is delivered as without a
\* redirection: to the console for the last stage, else to the next stage
StdoutDelivered ==
    IF IsLast
    THEN shell_out' = shell_out \o Written.stdout
    ELSE shell_out' = shell_out /\ built_in_out' = SomeBuf(Written.stdout)

\* C20: a built-in with a redirection writes the redirected stream to the
\* target file and to nothing else, and the other stream where it goes
\* without a redirection: under a stdout redirection nothing of its stdout
\* reaches the console or the next stage and its stderr goes to the console;
\* under a stderr redirection nothing of its stderr reaches the console and
\* its stdout is delivered as without a redirection.
C20_BuiltInRedirection ==
    [][(BuiltInRuns /\ Stage.redirection.kind # "None") =>
          /\ \A p \in FilePaths \ {StagePath} : files'[p] = files[p]
          /\ files'[StagePath].exists
          /\ IF Stage.redirection.kind = "StdOut"
             THEN /\ files'[StagePath].data = StageFileBase \o Written.stdout
                  /\ shell_out' = shell_out
                  /\ ~IsLast => built_in_out' = SomeBuf(<<>>)
                  /\ shell_err' = shell_err \o Written.stderr
             ELSE /\ files'[StagePath].data = StageFileBase \o Written.stderr
                  /\ shell_err' = shell_err
                  /\ StdoutDelivered]_vars

\* C20 witness: `echo a >> f | a` on a file that holds `x`: the file holds
\* `x`, `a` and a newline, the console has nothing of echo's and the program
\* has read the end of an empty input.
C20_Witness ==
    /\ command_text = Join(<<L_echo, W_a, W_gtgt, W_f, W_bar, W_a>>)
    /\ files[<<"/", "f">>].data = <<"x", "a", "\n">>
    /\ Len(procs) = 1
    /\ procs[1].recv = <<>>
    /\ procs[1].eof
    /\ ~(\E i \in DOMAIN shell_out : shell_out[i] = "a")
    /\ shell_err = <<>>

(***************************************************************************)
(* Further claims about main and eval (Spec).                              *)
(***************************************************************************)
EchoTruncLine == Join(<<L_echo, W_a, W_gt, W_f>>)

EchoAppendLine == Join(<<L_echo, W_a, W_gtgt, W_f>>)

RECURSIVE Repeated(_, _)
\* k copies of a text
Repeated(t, k) == IF k = 0 THEN <<>> ELSE t \o Repeated(t, k - 1)

\* the file `f` of the working directory
FileF == files[Resolve(cwd, W_f)]

\* C21: a run of `echo a > f` leaves f existing and holding exactly `a` and a
\* newline, whatever f held before and however often the line has run; a
\* run of `echo a >> f` leaves f existing and holding what it held followed
\* by `a` and a newline, and after k runs of `echo a >> f` from an absent f
\* it holds k copies of that line.
C21_TruncateAndAppend ==
    /\ [][(BuiltInRuns /\ command_text = EchoTruncLine) =>
              files'[StagePath] = [exists |-> TRUE, data |-> <<"a", "\n">>]]_vars
    /\ [][(BuiltInRuns /\ command_text = EchoAppendLine) =>
              files'[StagePath] =
                  [exists |-> TRUE, data |-> files[StagePath].data \o <<"a", "\n">>]]_vars
    /\ []((pc = "read" /\ \A i \in DOMAIN history : history[i] = EchoAppendLine) =>
              /\ FileF.exists = (history # <<>>)
              /\ FileF.data = Repeated(<<"a", "\n">>, Len(history)))

\* C21 witness: `echo a > f` has run twice, the second time on a file that
\* held the line from the first run, and f holds the line once.
C21_Witness ==
    /\ history = <<EchoTruncLine, EchoTruncLine>>
    /\ pc = "read"
    /\ FileF = [exists |-> TRUE, data |-> <<"a", "\n">>]

\* the directory a cd stage names: its argument, or the home directory for ~
CdTarget ==
    IF Stage.built_in.args[1] = <<"~">> THEN home.path ELSE Stage.built_in.args[1]

\* the stage is a cd without redirection to a directory that does not exist
CdFails ==
    /\ Stage.tag = "BuiltIn"
    /\ Stage.built_in.kind = "Cd"
    /\ Stage.redirection.kind = "None"
    /\ Stage.built_in.args[1] = <<"~">> => home.some
    /\ Resolve(cwd, CdTarget) \notin Dirs

\* the line cd reports for a directory that does not exist
CdReport(path) == <<"cd: ">> \o path \o <<": No such file or directory", "\n">>

\* the lines whose cd fails in the root directory for want of the target
FailingCdLines ==
    {Join(<<L_cd, W_x>>)} \cup
    (IF home.some /\ home.path \notin Dirs THEN {Join(<<L_cd, <<"~">>>>)} ELSE {})

\* C22: the step of eval that runs a cd, to a path or to ~ resolved to the
\* home directory, whose target does not exist leaves the working directory
\* as it is, adds the line `cd: <path>: No such file or directory` to the
\* shell's standard error, and does not end the shell; a pwd on the next line
\* prints the directory from before.
C22_CdFailure ==
    /\ [][(StageTaken /\ CdFails) =>
              /\ cwd' = cwd
              /\ shell_err' \in {shell_err \o CdReport(CdTarget),
                                 shell_err \o CdReport(Stage.built_in.args[1])}
              /\ pc' \in {"stage", "wait", "read"}]_vars
    /\ []((/\ Len(history) = 2
           /\ history[1] \in FailingCdLines
           /\ history[2] = L_pwd
           /\ pc = "read") => shell_out = <<"/", "\n">>)

(***************************************************************************)
(* Claims about the history built-in (HistorySpec).                        *)
(***************************************************************************)
\* the line shown for the entry at position i of the whole history
HistoryLine(i) == <<"\t">> \o Decimal(i) \o <<"\t">> \o history[i] \o <<"\n">>

RECURSIVE LinesFromTo(_, _)
\* the lines for the positions first..last, in order
LinesFromTo(first, last) ==
    IF first > last THEN <<>>
    ELSE LinesFromTo(first, last - 1) \o HistoryLine(last)

\* how many entries History(limit) is to show
ShownCount ==
    LET limit == Stage.built_in.limit
        n == Len(history)
    IN  IF ~limit.some THEN n ELSE IF limit.val < n THEN limit.val ELSE n

\* C23: the step that runs History(limit) on a history of n entries writes
\* the lines of the last min(limit, n) entries, of all n without a limit, in
\* order, each a tab, the position of the entry in the whole history counted
\* from 1, a tab, the entry and a newline; nothing for a limit of 0; and the
\* number of entries skipped is between 0 and n.
C23_HistoryWindow ==
    [][(StageTaken /\ Stage.tag = "BuiltIn" /\ Stage.built_in.kind = "History") =>
          /\ history_skip(Len(history), Stage.built_in.limit) \in 0..Len(history)
          /\ shell_out' =
                 shell_out \o LinesFromTo(Len(history) - ShownCount + 1, Len(history))
          /\ Stage.built_in.limit = SomeLimit(0) => shell_out' = shell_out
          /\ pc' = "wait"]_vars

\* C23 witness: History(2) on three entries has written the second and the
\* third with their positions 2 and 3.
C23_Witness ==
    /\ history = <<W_a, L_pwd, W_a>>
    /\ the_pipeline[1].built_in.limit = SomeLimit(2)
    /\ pc = "wait"
    /\ shell_out = <<"\t", "2", "\t">> \o L_pwd \o <<"\n", "\t", "3", "\t", "a", "\n">>

(***************************************************************************)
(* Claims about digit runs and plain runs (ScanSpec).                      *)
(***************************************************************************)
\* the input the scanner has yet to consume
Remaining(sc) ==
    IF sc.current = None THEN <<>>
    ELSE IF sc.next = None THEN <<sc.current>>
    ELSE <<sc.current, sc.next>> \o sc.chars

\* the input after the whitespace the next call of next_token skips
Ahead == Remaining(skip_whitespace(scanner))

\* the length of the longest prefix of s made of digits
DigitRunLen(s) ==
    CHOOSE k \in 0..Len(s) :
        /\ \A i \in 1..k : is_digit(s[i])
        /\ k = Len(s) \/ ~is_digit(s[k + 1])

RECURSIVE StripZeros(_)
StripZeros(s) == IF s # <<>> /\ Head(s) = "0" THEN StripZeros(Tail(s)) ELSE s

RECURSIVE DigitsLeq(_, _)
\* s <= t for digit texts of the same length
DigitsLeq(s, t) ==
    IF s = <<>> THEN TRUE
    ELSE IF Head(s) # Head(t) THEN DigitValue(Head(s)) < DigitValue(Head(t))
    ELSE DigitsLeq(Tail(s), Tail(t))

\* the number a digit run writes fits an unsigned 32-bit integer
FitsU32(run) ==
    LET d == StripZeros(run)
    IN  Len(d) < 10 \/ (Len(d) = 10 /\ DigitsLeq(d, U32MaxText))

RECURSIVE Rendered(_)
\* a u32 value written in decimal, by repeated division by ten (0 is empty)
Rendered(v) ==
    IF v.hi = 0 /\ v.lo = 0 THEN <<>>
    ELSE LET low == (v.hi % 10) * Limb + v.lo
         IN  Rendered([hi |-> v.hi \div 10, lo |-> low \div 10])
             \o <<Digits[(low % 10) + 1]>>

\* the tag of the token a digit run makes, by what follows the run
DigitTokenTag(after) ==
    IF Len(after) >= 2 /\ after[1] = ">" /\ after[2] = ">"
    THEN "RedirectOutAppendWithFileDescriptor"
    ELSE IF after # <<>> /\ after[1] = ">" THEN "RedirectOutWithFileDescriptor"
    ELSE "Integer"

OperatorLen(tag) ==
    IF tag = "RedirectOutAppendWithFileDescriptor" THEN 2
    ELSE IF tag = "RedirectOutWithFileDescriptor" THEN 1
    ELSE 0

\* C24: a call of next_token at a digit takes the longest run of digits; when
\* the number fits a u32 it returns one token: the append or plain
\* descriptor-qualified redirect when `>>` or `>` follows the run at once,
\* with the digits and the operator as lexeme, else an Integer with the digits
\* as lexeme, in each case with the number the digits write as value, and the
\* scanner is left right after the lexeme; when the number does not fit, the
\* call fails and no token is returned.
C24_DigitRun ==
    [][(wstate = "Idle" /\ scan_err = "" /\ Ahead # <<>> /\ is_digit(Ahead[1])) =>
          LET k == DigitRunLen(Ahead)
              run == SubSeq(Ahead, 1, k)
              tag == DigitTokenTag(SubSeq(Ahead, k + 1, Len(Ahead)))
              n == k + OperatorLen(tag)
          IN  IF FitsU32(run)
              THEN /\ scan_err' = ""
                   /\ Len(tokens') = Len(tokens) + 1
                   /\ tokens'[Len(tokens')].tag = tag
                   /\ tokens'[Len(tokens')].lexeme = SubSeq(Ahead, 1, n)
                   /\ Rendered(tokens'[Len(tokens')].val) = StripZeros(run)
                   /\ Remaining(scanner') = SubSeq(Ahead, n + 1, Len(Ahead))
              ELSE /\ scan_err' # ""
                   /\ tokens' = tokens]_vars

\* C24 witness: `4294967295>` is one redirect token with the largest u32 as
\* its descriptor.
C24_Witness ==
    /\ text = Append(U32MaxText, ">")
    /\ Len(tokens) >= 1
    /\ tokens[1] = Token_new("RedirectOutWithFileDescriptor",
                             [hi |-> Limb - 1, lo |-> Limb - 1], text)

\* the text holds no quote, backslash, `|` or `>`
NoSpecials == \A i \in DOMAIN text : text[i] \notin {SQ, DQ, BS, "|", ">"}

\* the length of the longest prefix of s without whitespace
RunLen(s) ==
    CHOOSE k \in 0..Len(s) :
        /\ \A i \in 1..k : ~is_whitespace(s[i])
        /\ k = Len(s) \/ is_whitespace(s[k + 1])

RECURSIVE RunsOf(_)
\* the maximal runs of non-whitespace characters of s, in order
RunsOf(s) ==
    IF s = <<>> THEN <<>>
    ELSE IF is_whitespace(Head(s)) THEN RunsOf(Tail(s))
    ELSE <<SubSeq(s, 1, RunLen(s))>> \o RunsOf(SubSeq(s, RunLen(s) + 1, Len(s)))

\* the lexemes of the tokens before the end-of-input token
TokenLexemes ==
    [i \in 1..(Len(tokens) - Cardinality(EndCalls)) |-> tokens[i].lexeme]

\* C25: a text without quotes, backslashes, `|` and `>` that scans to its end
\* gives exactly one token for each maximal run of non-whitespace characters,
\* with the run as its lexeme, whether the run starts with a letter or with
\* a digit.
C25_RunsAreTokens ==
    (ScanFinished /\ scan_err = "" /\ NoSpecials) => TokenLexemes = RunsOf(text)

(***************************************************************************)
(* Claims about parsed commands (ParseSpec).                               *)
(***************************************************************************)
\* the index of the token the j-th command of the line starts at: the first
\* token, and the token after the first Pipe token
CommandStart(j) ==
    IF j = 1 THEN 1
    ELSE 1 + CHOOSE i \in DOMAIN tokens :
                 /\ tokens[i].tag = "Pipe"
                 /\ \A k \in 1..(i - 1) : tokens[k].tag # "Pipe"

\* the lexemes of the tokens from..(to - 1)
LexemesFromTo(from, to) == [i \in 1..(to - from) |-> tokens[from + i - 1].lexeme]

\* C26: every External command of a parsed pipeline has as its arguments the
\* lexemes of the Word token it starts at and of the Word and Integer tokens
\* that follow it without a break, as written and in order; the list is not
\* empty.
C26_ExternalArgs ==
    ParsedPipeline =>
        \A j \in DOMAIN parsed.val.cmds :
            parsed.val.cmds[j].tag = "External" =>
                LET from == CommandStart(j)
                    args == parsed.val.cmds[j].args
                IN  /\ args # <<>>
                    /\ tokens[from].tag = "Word"
                    /\ args[1] = tokens[from].lexeme
                    /\ args = LexemesFromTo(from, ArgsEnd(tokens, from))

\* C26 witness: `a 07 a` has been parsed to the program a with the arguments
\* 07 and a.
C26_Witness ==
    /\ text = Join(<<W_a, <<"0", "7">>, W_a>>)
    /\ ParsedPipeline
    /\ parsed.val.cmds[1].tag = "External"
    /\ parsed.val.cmds[1].args = <<W_a, <<"0", "7">>, W_a>>

(***************************************************************************)
(* Further claims about one call of eval (EvalSpec).                       *)
(***************************************************************************)
\* the commands of the line eval is called on
LineCommands == parse(command_text).val.cmds

\* the line is a pipeline of built-ins only, none of them exit, whose
\* redirection files can all be opened
BuiltInsOnly ==
    /\ parse(command_text).st = "ok"
    /\ parse(command_text).val.some
    /\ \A j \in DOMAIN LineCommands :
           /\ LineCommands[j].tag = "BuiltIn"
           /\ LineCommands[j].built_in.kind \in {"Echo", "Pwd", "Cd"}
           /\ LineCommands[j].redirection.kind = "None"

\* C27: the step that runs a built-in stage to its end hands the captured
\* stdout to one place: it appends it to the shell's stdout when the stage is
\* the last, and otherwise keeps it, and nothing else, as the buffer for the
\* next stage and leaves the shell's stdout alone; in both cases a buffer
\* pending from a built-in stage before is dropped, and no pipe and no
\* process changes, so the stage reads nothing of the stage before it.  The
\* shell's stdout only ever grows by the last stage's built-in output or by a
\* program's write, the shell writes into a pipe only while it hands a
\* built-in's buffer to the stdin of the external stage right after it, and
\* when a line of built-ins has been evaluated the shell's stdout holds the
\* last stage's output once and nothing else.
C27_OneDestination ==
    /\ [][(BuiltInRuns /\ Stage.built_in.kind \in {"Echo", "Pwd", "Cd"}) =>
              /\ IF IsLast
                 THEN shell_out' = shell_out \o Captured(Stage) /\ built_in_out' = NoBuf
                 ELSE shell_out' = shell_out /\ built_in_out' = SomeBuf(Captured(Stage))
              /\ pipes' = pipes
              /\ procs' = procs]_vars
    /\ [][shell_out' # shell_out =>
              \/ procs' # procs
              \/ BuiltInRuns /\ IsLast]_vars
    /\ [][\A p \in DOMAIN pipes :
              (Len(pipes'[p].buf) > Len(pipes[p].buf) /\ procs' = procs) =>
                  /\ pc = "write"
                  /\ p = procs[spawned.pid].stdin.pipe
                  /\ spawned.pid = Len(procs)
                  /\ the_pipeline[stage_i].tag = "External"
                  /\ the_pipeline[stage_i - 1].tag = "BuiltIn"]_vars
    /\ []((pc = "read" /\ BuiltInsOnly) =>
              shell_out = Captured(LineCommands[Len(LineCommands)]))

\* C27 witness: `echo a | pwd` has been evaluated: the console shows the
\* working directory and nothing of echo's.
C27_Witness ==
    /\ command_text = Join(<<L_echo, W_a, W_bar, L_pwd>>)
    /\ pc = "read"
    /\ procs = <<>>
    /\ shell_out = <<"/", "\n">>

(***************************************************************************)
(* Claims about termination (ScanSpec).                                    *)
(***************************************************************************)
\* how many characters of the text the scanner has consumed
Consumed == Len(text) - Len(Remaining(scanner))

RECURSIVE ArgCount(_)
\* how many arguments the commands of a pipeline hold
ArgCount(cmds) ==
    IF cmds = <<>> THEN 0
    ELSE Len(Head(cmds).args) + Len(Head(cmds).built_in.args) + ArgCount(Tail(cmds))

\* C28: a call of next_token that returns a token other than the
\* end-of-input token consumes at least one character, no step of the scanner
\* moves it backwards, every iteration of the loop of word() that goes on
\* consumes a character and the loop ends at the end of the input at the
\* latest, so at any time there are at most as many tokens other than
\* end-of-input as characters consumed; and parse of the text comes to a
\* result whose commands hold no more arguments than the text has characters.
C28_ScanningTerminates ==
    /\ []((wstate = "Idle" /\ scan_err = "") =>
              LET r == next_token(scanner)
              IN  r.err = "" =>
                      /\ Len(Remaining(r.scanner)) <= Len(Remaining(scanner))
                      /\ r.token.tag # "EndOfCommand" =>
                             Len(Remaining(r.scanner)) < Len(Remaining(scanner)))
    /\ [][Len(Remaining(scanner')) <= Len(Remaining(scanner))]_vars
    /\ [][(wstate # "Idle" /\ wstate' # "Idle") =>
              Len(Remaining(scanner')) < Len(Remaining(scanner))]_vars
    /\ []((wstate # "Idle" /\ scanner.current = None) =>
              word_arm(scanner.current, wstate).do # "advance")
    /\ [](Len(tokens) - Cardinality(EndCalls) <= Consumed)
    /\ []((tokens = <<>> /\ wstate = "Idle" /\ scan_err = "") =>
              LET r == parse(text)
              IN  /\ r.st \in {"ok", "err", "panic"}
                  /\ (r.st = "ok" /\ r.val.some) => ArgCount(r.val.cmds) <= Len(text))

\* C28 witness: `|>|a` has been scanned to its end into four tokens and the
\* end-of-input token, one token for each character.
C28_Witness ==
    /\ text = <<"|", ">", "|", "a">>
    /\ scan_err = ""
    /\ Len(tokens) - Cardinality(EndCalls) = 4
    /\ EndCalls # {}
    /\ Consumed = 4

====
